---- MODULE Spec2Model ----
(***************************************************************************)
(* Model of the Pixel-ART-FX effect engine: the colour utilities, the two  *)
(* Floyd-Steinberg dithering routines, the point-threshold effects, the    *)
(* block-quantization effects and the CRT modulation effect, as they are   *)
(* written in src/constants.ts and in the earlier revision of the same     *)
(* file kept in src/unnamed/part_001.                                      *)
(*                                                                         *)
(* Numbers.  JavaScript numbers are modelled exactly:                      *)
(*  - a brightness 0.2126 R + 0.7152 G + 0.0722 B is kept as the integer   *)
(*    2126 R + 7152 G + 722 B, in units of 1/BrightnessScale;              *)
(*  - a cell of a dithering scratch array is a fixed-point number (Fix):   *)
(*    a sequence <<top, f1, .., fK>> of limbs in base LimbBase, the value  *)
(*    being top + f1/LimbBase + f2/LimbBase^2 + ...; top is signed and the *)
(*    fraction limbs lie in 0..LimbBase-1.  The diffusion factor is a      *)
(*    multiple of 1/2, so every diffused share err*k*factor/16 is an exact *)
(*    multiple of 1/32 of err and K limbs hold it without rounding (the    *)
(*    variable exact records that no division ever left a remainder).      *)
(*    The rounding of a Float32Array store is not modelled.                *)
(*  - a quantity a block effect computes (an average, a size, a radius)   *)
(*    is a fraction <<numerator, denominator>> in lowest terms.            *)
(*                                                                         *)
(* Specifications.  Spec runs the processors that work on the raw buffer   *)
(* (Threshold, Grayscale, the two dithering routines, CRT modulation);    *)
(* SpecBlock runs the block effects, which read the buffer and draw on the *)
(* canvas; SpecNearest and SpecAscii apply findClosestColor and the ASCII  *)
(* step mapping to enumerated arguments.                                   *)
(***************************************************************************)
EXTENDS Integers, Sequences, FiniteSets, TLC

\* ------------------------------------------------------------------ bounds
\* Largest width and height of an image put through a dithering routine.
MaxW == 3
MaxH == 2
\* Largest width and height of an image put through the other effects.
MaxSide == 4
\* Longest palette handed to findClosestColor on its own.
MaxPalette == 3
\* Largest width and height of an image put through a block effect.
MaxBlockSide == 5
\* Longest string handed to hexToRgb on its own.
MaxHexLen == 7
\* Largest width and height of an image dithered with parsed colour strings.
MaxHexSide == 2
\* Most user events handled by the ImageProcessor component in one behaviour.
MaxEvents == 4
\* Most processImage callbacks waiting for their timeout at once.
MaxTimers == 4
\* Most presets kept at once.
MaxPresets == 2

\* ------------------------------------------------------- exact arithmetic
\* Base of a fixed-point limb: 2^15, i.e. three divisions by 32 per limb.
LimbBase == 2^15
\* Fraction limbs of a scratch cell: one division by 32 per pixel visited.
FracLimbs == (MaxW * MaxH + 1) \div 3
FixLen == FracLimbs + 1

RECURSIVE Zeros(_)
Zeros(n) == IF n = 0 THEN <<>> ELSE <<0>> \o Zeros(n - 1)
ZeroFraction == Zeros(FracLimbs)

FixFromInt(n) == <<n>> \o ZeroFraction

RECURSIVE AddLimbs(_, _, _, _)
\* a + b from limb i up to the top limb, with carry propagation.
AddLimbs(a, b, i, carry) ==
    IF i = 1 THEN <<a[1] + b[1] + carry>>
    ELSE LET t == a[i] + b[i] + carry
         IN  AddLimbs(a, b, i - 1, t \div LimbBase) \o <<t % LimbBase>>

RECURSIVE SubLimbs(_, _, _, _)
SubLimbs(a, b, i, carry) ==
    IF i = 1 THEN <<a[1] - b[1] + carry>>
    ELSE LET t == a[i] - b[i] + carry
         IN  SubLimbs(a, b, i - 1, t \div LimbBase) \o <<t % LimbBase>>

RECURSIVE MulLimbs(_, _, _, _)
\* a * k for a small integer k.
MulLimbs(a, k, i, carry) ==
    IF i = 1 THEN <<a[1] * k + carry>>
    ELSE LET t == a[i] * k + carry
         IN  MulLimbs(a, k, i - 1, t \div LimbBase) \o <<t % LimbBase>>

FixAdd(a, b) == AddLimbs(a, b, Len(a), 0)
FixSub(a, b) == SubLimbs(a, b, Len(a), 0)
FixMulSmall(a, k) == MulLimbs(a, k, Len(a), 0)
FixNeg(a) == FixSub(Zeros(Len(a)), a)
FixAbs(a) == IF a[1] < 0 THEN FixNeg(a) ELSE a

RECURSIVE FixLess(_, _, _)
\* a < b, comparing limbs from the top (index k) down.
FixLess(a, b, k) ==
    IF k > Len(a) THEN FALSE
    ELSE IF a[k] # b[k] THEN a[k] < b[k]
    ELSE FixLess(a, b, k + 1)

RECURSIVE Shr5(_, _, _)
\* Division by 32, rounding down; the last element of the result is the
\* remainder that fell off the last limb.
Shr5(a, k, rem) ==
    IF k > Len(a) THEN <<rem>>
    ELSE LET t == rem * LimbBase + a[k]
         IN  <<t \div 32>> \o Shr5(a, k + 1, t % 32)

FixDiv32(a) == SubSeq(Shr5(a, 1, 0), 1, Len(a))
FixDiv32Rem(a) == Shr5(a, 1, 0)[Len(a) + 1]

RECURSIVE MulRows(_, _, _)
\* Product of two non-negative fixed-point numbers, from row i of a on:
\* Len(a) + Len(b) - 1 limbs.
MulRows(a, b, i) ==
    IF i > Len(a) THEN Zeros(Len(a) + Len(b) - 1)
    ELSE LET row == MulLimbs(b, a[i], Len(b), 0)
             shifted == Zeros(i - 1) \o row \o Zeros(Len(a) - i)
             rest == MulRows(a, b, i + 1)
         IN  AddLimbs(shifted, rest, Len(rest), 0)

FixSquare(a) == MulRows(FixAbs(a), FixAbs(a), 1)

\* ------------------------------------------------------------------ state
VARIABLES
    effect,     \* id of the effect whose processor is running, or a utility name
    params,     \* the parameter set handed to the processor
    width,      \* image geometry
    height,
    src,        \* the RGBA buffer as getImageData returned it (index -> 0..255)
    data,       \* the buffer the processor writes (imageData.data / processedData)
    scratch,    \* working storage of the processor: the Float32Array of a dithering
                \* routine (index -> Fix); for a block effect the accumulators of
                \* every block iteration so far, in order
    pc,         \* position of the processor: "start", "loop", "scan", "blocks", "done";
                \* "call" / "symbol" then "done" / "returned" for a utility on its own
    pos,        \* the loop variable of the running scan
    touched,    \* <<array, index>> of every element read or written by the last step
    exact,      \* no diffusion share has been rounded so far
    drawn,      \* the drawing calls issued on the canvas so far, in order
    call,       \* utility specifications: the arguments of the call
    result,     \* utility specifications: the value returned, or NoResult
    originalImage,  \* ImageProcessor state: the loaded image, or Null
    activeEffect,   \* ImageProcessor state: the id of the chosen effect
    effectParams,   \* ImageProcessor state: parameter id -> value
    presets,        \* ImageProcessor state: the saved presets, in order
    timers,         \* the setTimeout callbacks of processImage not yet run, in order
    events,         \* how many user events the component has handled
    isLoading,      \* ImageProcessor state: the loading indicator
    error           \* ImageProcessor state: the error message shown, or Null

\* The state of the ImageProcessor component.
component == <<originalImage, activeEffect, effectParams, presets, timers, events,
               isLoading, error>>
\* The state of a processor or utility run.
engine == <<effect, params, width, height, src, data, scratch, pc, pos, touched,
            exact, drawn, call, result>>
vars == <<effect, params, width, height, src, data, scratch, pc, pos, touched,
          exact, drawn, call, result,
          originalImage, activeEffect, effectParams, presets, timers, events,
          isLoading, error>>

NoResult == "none"
\* What a variable holds in a specification that does not use it.
Unused == <<>>
\* No component is mounted: a processor or a utility is run on its own.
NoComponent ==
    /\ originalImage = Unused
    /\ activeEffect = Unused
    /\ effectParams = Unused
    /\ presets = Unused
    /\ timers = Unused
    /\ events = 0
    /\ isLoading = FALSE
    /\ error = Unused

\* -------------------------------------------------------- colour utilities
\* 0.2126 r + 0.7152 g + 0.0722 b, in units of 1/BrightnessScale.
BrightnessScale == 10000
Brightness(r, g, b) == 2126 * r + 7152 * g + 722 * b

HexDigits == <<"0", "1", "2", "3", "4", "5", "6", "7", "8", "9",
               "a", "b", "c", "d", "e", "f">>
UpperHexDigits == <<"0", "1", "2", "3", "4", "5", "6", "7", "8", "9",
                    "A", "B", "C", "D", "E", "F">>
\* [a-f\d] under the i flag.
IsHexDigit(ch) == \E k \in 1..16 : HexDigits[k] = ch \/ UpperHexDigits[k] = ch
\* parseInt(.., 16) of one digit.
HexValue(ch) == (CHOOSE k \in 1..16 : HexDigits[k] = ch \/ UpperHexDigits[k] = ch) - 1
HexByte(hi, lo) == 16 * HexValue(hi) + HexValue(lo)

\* The null that hexToRgb returns on no match.
Null == "null"

\* The pattern without its end anchor: six digits and anything after them.
BodyAtLeastSix(body) == Len(body) >= 6
\* ^#?(..)(..)(..)$ : exactly three groups of two characters after the '#'.
BodyLengthOk(body) == Len(body) = 6

\* hexToRgb: a hex string is a sequence of one-character strings.
hexToRgb(hex) ==
    LET body == IF Len(hex) > 0 /\ hex[1] = "#" THEN Tail(hex) ELSE hex
    IN  IF BodyLengthOk(body) /\ \A k \in 1..6 : IsHexDigit(body[k])
        THEN <<HexByte(body[1], body[2]), HexByte(body[3], body[4]),
               HexByte(body[5], body[6])>>
        ELSE Null

\* The initial minDistance of findClosestColor.
Infinity == <<>>

\* Sum of the three squared channel differences; color holds Fix channels and
\* paletteColor integer channels.
Distance(color, paletteColor) ==
    LET sqR == FixSquare(FixSub(color[1], FixFromInt(paletteColor[1])))
        sqG == FixSquare(FixSub(color[2], FixFromInt(paletteColor[2])))
        sqB == FixSquare(FixSub(color[3], FixFromInt(paletteColor[3])))
        sqRG == AddLimbs(sqR, sqG, Len(sqG), 0)
    IN  AddLimbs(sqRG, sqB, Len(sqRG), 0)

\* The test "distance <= minDistance" (ties go to the later entry).
DistanceLessOrEqual(distance, minDistance) ==
    minDistance = Infinity \/ ~FixLess(minDistance, distance, 1)

\* The test "distance < minDistance" of findClosestColor.
DistanceLess(distance, minDistance) ==
    minDistance = Infinity \/ FixLess(distance, minDistance, 1)

RECURSIVE ClosestFrom(_, _, _, _, _)
\* The loop of findClosestColor from palette entry k on.
ClosestFrom(color, palette, k, closestColor, minDistance) ==
    IF k > Len(palette) THEN closestColor
    ELSE LET distance == Distance(color, palette[k])
         IN  IF DistanceLess(distance, minDistance)
             THEN ClosestFrom(color, palette, k + 1, palette[k], distance)
             ELSE ClosestFrom(color, palette, k + 1, closestColor, minDistance)

\* The loop entered at the second palette entry.
findClosestColorSkipFirst(color, palette) ==
    ClosestFrom(color, palette, 2, palette[1], Infinity)

\* No quantization: the integer part of the colour handed in.
findClosestColorAsIs(color, palette) == <<color[1][1], color[2][1], color[3][1]>>

findClosestColor(color, palette) ==
    ClosestFrom(color, palette, 1, palette[1], Infinity)

JUSTICE_PALETTE == <<
    <<13, 33, 108>>,
    <<255, 147, 0>>,
    <<215, 235, 188>>,
    <<0, 0, 0>> >>

\* An integer colour as the Fix triple the dithering loop hands over.
FixColor(c) == <<FixFromInt(c[1]), FixFromInt(c[2]), FixFromInt(c[3])>>

\* ------------------------------------------------------- typed-array access
\* Buffers are sequences; element k of the JavaScript array is arr[k + 1].
InRange(arr, k) == k >= 0 /\ k < Len(arr)
\* A read; reads outside the array never happen in the code as written (see
\* touched); a stray read of a variant of the code counts as 0.
Get(arr, k) == IF InRange(arr, k) THEN arr[k + 1] ELSE 0
\* A write; a typed array ignores a write outside its bounds.
Set(arr, k, v) == IF InRange(arr, k) THEN [arr EXCEPT ![k + 1] = v] ELSE arr
\* Three channel writes that also overwrite the alpha byte.
Set3AndAlpha(arr, k, v0, v1, v2) == Set(Set(Set(Set(arr, k, v0), k + 1, v1), k + 2, v2), k + 3, v0)
\* data[k] = v0; data[k + 1] = v1; data[k + 2] = v2
Set3(arr, k, v0, v1, v2) == Set(Set(Set(arr, k, v0), k + 1, v1), k + 2, v2)

\* Storing the number num/den into a Uint8ClampedArray: round to nearest, ties
\* to even, then clamp to 0..255.
ToUint8Clamped(num, den) ==
    LET q == num \div den
        r == num % den
        n == IF 2 * r > den THEN q + 1
             ELSE IF 2 * r < den THEN q
             ELSE IF q % 2 = 0 THEN q ELSE q + 1
    IN  IF n < 0 THEN 0 ELSE IF n > 255 THEN 255 ELSE n

\* ------------------------------------------------------------ sample inputs
\* RGBA pixels the explored images are made of: the three greys around the
\* default threshold, two palette colours and white, with varied alpha.
SamplePixels == <<
    <<128, 128, 128, 255>>,
    <<127, 127, 127, 0>>,
    <<129, 129, 129, 128>>,
    <<255, 147, 0, 255>>,
    <<13, 33, 108, 77>>,
    <<255, 255, 255, 200>> >>

\* The w x h image whose pixel (x, y) is sample (a x + b y + c) mod n.
Image(w, h, a, b, c) ==
    [k \in 1..(w * h * 4) |->
        LET p == (k - 1) \div 4
            x == p % w
            y == p \div w
        IN  SamplePixels[((a * x + b * y + c) % Len(SamplePixels)) + 1][((k - 1) % 4) + 1]]

Images(w, h) ==
    {Image(w, h, a, b, c) : a \in 0..1, b \in 0..2, c \in 0..(Len(SamplePixels) - 1)}

\* Threshold levels tried: the slider's ends and its default.
Levels == {1, 128, 254}

\* ------------------------------------------------- point-threshold effects
PixelBrightness(d, i) == Brightness(Get(d, i), Get(d, i + 1), Get(d, i + 2))

\* "brightness >= level" in place of the strict test.
AboveLevelOrEqual(brightness, level) == brightness >= level * BrightnessScale

\* brightness > level
AboveLevel(brightness, level) == brightness > level * BrightnessScale

\* One iteration of the Threshold loop: for (i = 0; i < data.length; i += 4).
ThresholdStep ==
    /\ effect = "THRESHOLD"
    /\ pc = "loop"
    /\ pos < Len(data)
    /\ LET brightness == PixelBrightness(data, pos)
           color == IF AboveLevel(brightness, params.level) THEN 255 ELSE 0
       IN  data' = Set3(data, pos, color, color, color)
    /\ touched' = {<<"data", pos>>, <<"data", pos + 1>>, <<"data", pos + 2>>}
    /\ pos' = pos + 4
    /\ UNCHANGED <<effect, params, width, height, src, scratch, pc, exact, drawn,
                   call, result>>
    /\ UNCHANGED component

\* One iteration of the Grayscale loop.
GrayscaleStep ==
    /\ effect = "GRAYSCALE"
    /\ pc = "loop"
    /\ pos < Len(data)
    /\ LET brightness == PixelBrightness(data, pos)
           color == IF AboveLevel(brightness, params.level)
                    THEN ToUint8Clamped(brightness, BrightnessScale) ELSE 0
       IN  data' = Set3(data, pos, color, color, color)
    /\ touched' = {<<"data", pos>>, <<"data", pos + 1>>, <<"data", pos + 2>>}
    /\ pos' = pos + 4
    /\ UNCHANGED <<effect, params, width, height, src, scratch, pc, exact, drawn,
                   call, result>>
    /\ UNCHANGED component

\* The loop condition fails: ctx.putImageData(imageData, 0, 0) and return.
PointPutImageData ==
    /\ effect \in {"THRESHOLD", "GRAYSCALE"}
    /\ pc = "loop"
    /\ pos >= Len(data)
    /\ drawn' = Append(drawn, <<"putImageData", 0, 0>>)
    /\ pc' = "done"
    /\ touched' = {}
    /\ UNCHANGED <<effect, params, width, height, src, data, scratch, pos, exact,
                   call, result>>
    /\ UNCHANGED component

\* ------------------------------------------------- error-diffusion dithering
\* The diffusion factor is explored in halves: params.factor = 1, 2 stands for
\* 0.5 and 1.0, the middle and the default of a slider that starts at 0.1.
Factors == {1, 2}

\* Hex colour strings tried as (darkColor, lightColor): the defaults, strings
\* without '#', in lower case, and malformed ones.
HexBlack == <<"#", "0", "0", "0", "0", "0", "0">>
HexWhite == <<"#", "F", "F", "F", "F", "F", "F">>
HexNavy == <<"1", "f", "2", "e", "6", "9">>
HexLime == <<"#", "d", "3", "E", "0", "9", "9">>
HexBadDigit == <<"#", "1", "2", "g", "4", "5", "6">>
HexShort == <<"f", "f", "f">>
ColorPairs == {<<HexBlack, HexWhite>>, <<HexNavy, HexLime>>,
               <<HexBadDigit, HexWhite>>, <<HexBlack, HexShort>>}

\* hexToRgb(params.darkColor) || [0, 0, 0]
DarkColor(p) ==
    IF hexToRgb(p.darkColor) = Null THEN <<0, 0, 0>> ELSE hexToRgb(p.darkColor)
\* hexToRgb(params.lightColor) || [255, 255, 255]
LightColor(p) ==
    IF hexToRgb(p.lightColor) = Null THEN <<255, 255, 255>> ELSE hexToRgb(p.lightColor)

\* The guard with the bounds test dropped.
NoBoundsTest(x, w) == TRUE

\* x + 1 < width
HasRight(x, w) == x + 1 < w
\* y + 1 < height
HasBelow(y, h) == y + 1 < h
\* The below-left guard without its column test.
NoLeftTest(x) == TRUE
\* x > 0
HasLeft(x) == x > 0

\* Weights with right and below exchanged.
SwappedWeight(dx, dy) ==
    IF dy = 0 THEN 5 ELSE IF dx = -1 THEN 3 ELSE IF dx = 0 THEN 7 ELSE 1

\* The weight, out of 16, of the neighbour at offset (dx, dy).
Weight(dx, dy) ==
    IF dy = 0 THEN 7 ELSE IF dx = -1 THEN 3 ELSE IF dx = 0 THEN 5 ELSE 1

\* err * weight * factor / 16 with factor given in halves: an exact
\* multiple of err/32.
Share(err, weight, factor) == FixDiv32(FixMulSmall(err, weight * factor))
ShareIsExact(err, weight, factor) == FixDiv32Rem(FixMulSmall(err, weight * factor)) = 0

\* arr[k] += v on a Float32Array.
AddAt(arr, k, v) == IF InRange(arr, k) THEN [arr EXCEPT ![k + 1] = FixAdd(@, v)] ELSE arr
\* The three "+=" of one neighbour in applyDitheringColor.
AddAt3(arr, k, err, weight, factor) ==
    AddAt(AddAt(AddAt(arr, k, Share(err[1], weight, factor)),
                k + 1, Share(err[2], weight, factor)),
          k + 2, Share(err[3], weight, factor))
GetFix(arr, k) == IF InRange(arr, k) THEN arr[k + 1] ELSE FixFromInt(0)

\* applyDitheringColor up to its scan: the Float32Array and its initialisation.
DitherColorStart ==
    /\ effect = "DITHER_PALETTE"
    /\ pc = "start"
    /\ scratch' = [k \in 1..(width * height * 3) |->
                      FixFromInt(Get(data, ((k - 1) \div 3) * 4 + ((k - 1) % 3)))]
    /\ touched' = {<<"pixelData", i * 3 + c>> : i \in 0..(width * height - 1), c \in 0..2}
                  \cup {<<"data", i * 4 + c>> : i \in 0..(width * height - 1), c \in 0..2}
    /\ pc' = "loop"
    /\ pos' = 0
    /\ UNCHANGED <<effect, params, width, height, src, data, exact, drawn, call, result>>
    /\ UNCHANGED component

\* One iteration of the scan of applyDitheringColor; pos = y * width + x.
DitherColorStep ==
    /\ effect = "DITHER_PALETTE"
    /\ pc = "loop"
    /\ pos < width * height
    /\ LET x == pos % width
           y == pos \div width
           i == (y * width + x) * 3
           oldColor == <<GetFix(scratch, i), GetFix(scratch, i + 1), GetFix(scratch, i + 2)>>
           newColor == findClosestColor(oldColor, JUSTICE_PALETTE)
           outIdx == (y * width + x) * 4
           err == [c \in 1..3 |-> FixSub(oldColor[c], FixFromInt(newColor[c]))]
           f == params.factor
           right == HasRight(x, width)
           bottomLeft == HasBelow(y, height) /\ HasLeft(x)
           bottom == HasBelow(y, height)
           bottomRight == HasBelow(y, height) /\ HasRight(x, width)
           s1 == IF right THEN AddAt3(scratch, i + 3, err, Weight(1, 0), f) ELSE scratch
           s2 == IF bottomLeft
                 THEN AddAt3(s1, i + (width * 3) - 3, err, Weight(-1, 1), f) ELSE s1
           s3 == IF bottom THEN AddAt3(s2, i + (width * 3), err, Weight(0, 1), f) ELSE s2
           s4 == IF bottomRight
                 THEN AddAt3(s3, i + (width * 3) + 3, err, Weight(1, 1), f) ELSE s3
           targets == (IF right THEN {i + 3} ELSE {})
                      \cup (IF bottomLeft THEN {i + (width * 3) - 3} ELSE {})
                      \cup (IF bottom THEN {i + (width * 3)} ELSE {})
                      \cup (IF bottomRight THEN {i + (width * 3) + 3} ELSE {})
           applied == (IF right THEN {Weight(1, 0)} ELSE {})
                      \cup (IF bottomLeft THEN {Weight(-1, 1)} ELSE {})
                      \cup (IF bottom THEN {Weight(0, 1)} ELSE {})
                      \cup (IF bottomRight THEN {Weight(1, 1)} ELSE {})
       IN  /\ data' = Set3(data, outIdx, ToUint8Clamped(newColor[1], 1),
                           ToUint8Clamped(newColor[2], 1), ToUint8Clamped(newColor[3], 1))
           /\ scratch' = s4
           /\ touched' = {<<"pixelData", i + c>> : c \in 0..2}
                         \cup {<<"data", outIdx + c>> : c \in 0..2}
                         \cup {<<"pixelData", t + c>> : t \in targets, c \in 0..2}
           /\ exact' = (exact /\ \A c \in 1..3, k \in applied : ShareIsExact(err[c], k, f))
    /\ pos' = pos + 1
    /\ UNCHANGED <<effect, params, width, height, src, pc, drawn, call, result>>
    /\ UNCHANGED component

\* 127.5 and 255 in units of 1/BrightnessScale.
Midpoint == FixFromInt(1275000)
\* oldPixel > 128: the comparison against the next whole number.
UseLightColor128(oldPixel) == FixLess(FixFromInt(1280000), oldPixel, 1)
\* oldPixel > 127.5
UseLightColor(oldPixel) == FixLess(Midpoint, oldPixel, 1)

\* applyDitheringBW up to its scan: the grayscale array.  Its cells hold the
\* brightness in units of 1/BrightnessScale.
DitherBWStart ==
    /\ effect = "DITHER_BW"
    /\ pc = "start"
    /\ scratch' = [k \in 1..(width * height) |->
                      IF 4 * (k - 1) < Len(data)
                      THEN FixFromInt(PixelBrightness(data, 4 * (k - 1)))
                      ELSE FixFromInt(0)]
    /\ touched' = {<<"grayscale", i \div 4>> : i \in {j \in 0..(Len(data) - 1) : j % 4 = 0}}
                  \cup {<<"data", i + c>> : i \in {j \in 0..(Len(data) - 1) : j % 4 = 0},
                                            c \in 0..2}
    /\ pc' = "loop"
    /\ pos' = 0
    /\ UNCHANGED <<effect, params, width, height, src, data, exact, drawn, call, result>>
    /\ UNCHANGED component

\* One iteration of the scan of applyDitheringBW; pos = i = y * width + x.
DitherBWStep ==
    /\ effect = "DITHER_BW"
    /\ pc = "loop"
    /\ pos < width * height
    /\ LET x == pos % width
           y == pos \div width
           i == y * width + x
           oldPixel == GetFix(scratch, i)
           useLightColor == UseLightColor(oldPixel)
           newPixelValue == IF useLightColor THEN 255 ELSE 0
           color == IF useLightColor THEN LightColor(params) ELSE DarkColor(params)
           outIdx == i * 4
           quantError == FixSub(oldPixel, FixFromInt(newPixelValue * BrightnessScale))
           f == params.factor
           right == HasRight(x, width)
           below == HasBelow(y, height)
           s1 == IF right THEN AddAt(scratch, i + 1, Share(quantError, Weight(1, 0), f))
                 ELSE scratch
           s2 == IF below /\ HasLeft(x)
                 THEN AddAt(s1, i + width - 1, Share(quantError, Weight(-1, 1), f)) ELSE s1
           s3 == IF below THEN AddAt(s2, i + width, Share(quantError, Weight(0, 1), f)) ELSE s2
           s4 == IF below /\ HasRight(x, width)
                 THEN AddAt(s3, i + width + 1, Share(quantError, Weight(1, 1), f)) ELSE s3
           targets == (IF right THEN {i + 1} ELSE {})
                      \cup (IF below /\ HasLeft(x) THEN {i + width - 1} ELSE {})
                      \cup (IF below THEN {i + width} ELSE {})
                      \cup (IF below /\ HasRight(x, width) THEN {i + width + 1} ELSE {})
           applied == (IF right THEN {Weight(1, 0)} ELSE {})
                      \cup (IF below /\ HasLeft(x) THEN {Weight(-1, 1)} ELSE {})
                      \cup (IF below THEN {Weight(0, 1)} ELSE {})
                      \cup (IF below /\ HasRight(x, width) THEN {Weight(1, 1)} ELSE {})
       IN  /\ data' = Set3(data, outIdx, ToUint8Clamped(color[1], 1),
                           ToUint8Clamped(color[2], 1), ToUint8Clamped(color[3], 1))
           /\ scratch' = s4
           /\ touched' = {<<"grayscale", i>>}
                         \cup {<<"data", outIdx + c>> : c \in 0..2}
                         \cup {<<"grayscale", t>> : t \in targets}
           /\ exact' = (exact /\ \A k \in applied : ShareIsExact(quantError, k, f))
    /\ pos' = pos + 1
    /\ UNCHANGED <<effect, params, width, height, src, pc, drawn, call, result>>
    /\ UNCHANGED component

\* The scan is over: the routine returns and the processor calls putImageData.
DitherPutImageData ==
    /\ effect \in {"DITHER_PALETTE", "DITHER_BW"}
    /\ pc = "loop"
    /\ pos >= width * height
    /\ drawn' = Append(drawn, <<"putImageData", 0, 0>>)
    /\ pc' = "done"
    /\ touched' = {}
    /\ UNCHANGED <<effect, params, width, height, src, data, scratch, pos, exact,
                   call, result>>
    /\ UNCHANGED component

\* ------------------------------------------------------------ CRT modulation
\* Math.sin(t) in units of 1/BrightnessScale, to the nearest unit, for the
\* arguments t = y * frequency (t in hundredths) the explored rows produce.
SinE4(t) ==
    CASE t = 0 -> 0
      [] t = 50 -> 4794
      [] t = 100 -> 8415
      [] t = 150 -> 9975
      [] t = 400 -> -7568
      [] t = 800 -> 9894
      [] t = 200 -> 9093
      [] t = 1200 -> -5366
      [] t = 1600 -> -2879

\* Parameter values tried; frequency and scanlineOpacity are in hundredths.
Amplitudes == {0, 3}
Frequencies == {50, 400}
Aberrations == {0, 1}
ScanlineOpacities == {0, 15}
\* The glow slider's lower end and its default.
Glows == {0, 10}

\* Math.round of n / BrightnessScale: the nearest integer, ties upwards.
MathRound(n) == (2 * n + BrightnessScale) \div (2 * BrightnessScale)

\* The column taken modulo the width: a read that wraps around the row.
WrapX(x, w) == x % w
\* Math.max(0, Math.min(x, width - 1))
ClampX(x, w) == IF 0 > (IF x < w - 1 THEN x ELSE w - 1) THEN 0
                ELSE (IF x < w - 1 THEN x ELSE w - 1)

\* The index computed from the column alone.
GetPixelIndexNoRow(w, x, y) == ClampX(MathRound(x), w) * 4

\* The index getPixel reads at; x is in units of 1/BrightnessScale.
GetPixelIndex(w, x, y) == (y * w + ClampX(MathRound(x), w)) * 4
\* getPixel: the [r, g, b] at the rounded, clamped position.
getPixel(d, w, x, y) ==
    LET i == GetPixelIndex(w, x, y)
    IN  <<Get(d, i), Get(d, i + 1), Get(d, i + 2)>>

\* Math.sin(y * frequency) * amplitude, in units of 1/BrightnessScale.
OffsetY(p, y) == SinE4(y * p.frequency) * p.amplitude

\* processedData[i + 3] = 255
AlphaOpaque(d, i) == 255

\* One iteration of the displacement loops; pos = y * width + x.
CRTDisplaceStep ==
    /\ effect = "CRT_MODULATION"
    /\ pc = "loop"
    /\ pos < width * height
    /\ LET x == pos % width
           y == pos \div width
           offsetY == OffsetY(params, y)
           i == (y * width + x) * 4
           xs == x * BrightnessScale
           ab == params.aberration * BrightnessScale
           r == getPixel(src, width, xs - (offsetY + ab), y)[1]
           g == getPixel(src, width, xs - offsetY, y)[2]
           b == getPixel(src, width, xs - (offsetY - ab), y)[3]
           reads == {GetPixelIndex(width, xs - (offsetY + ab), y),
                     GetPixelIndex(width, xs - offsetY, y),
                     GetPixelIndex(width, xs - (offsetY - ab), y)}
       IN  /\ data' = Set(Set3(data, i, r, g, b), i + 3, AlphaOpaque(data, i))
           /\ touched' = {<<"originalData", k + c>> : k \in reads, c \in 0..2}
                         \cup {<<"processedData", i + c>> : c \in 0..3}
    /\ pos' = pos + 1
    /\ UNCHANGED <<effect, params, width, height, src, scratch, pc, exact, drawn,
                   call, result>>
    /\ UNCHANGED component

\* The displacement loops are over: enter the scanline loop when
\* scanlineOpacity > 0, else go on to putImageData.
CRTDisplaceDone ==
    /\ effect = "CRT_MODULATION"
    /\ pc = "loop"
    /\ pos >= width * height
    /\ pc' = IF params.scanlineOpacity > 0 THEN "scan" ELSE "done"
    /\ pos' = 0
    /\ touched' = {}
    /\ UNCHANGED <<effect, params, width, height, src, data, scratch, exact, drawn,
                   call, result>>
    /\ UNCHANGED component

RECURSIVE DarkenRowWithAlpha(_, _, _, _, _)
\* The inner scanline loop with a fourth "*=" on the alpha of each pixel.
DarkenRowWithAlpha(d, w, y, x, opacity) ==
    IF x >= w THEN d
    ELSE LET i == (y * w + x) * 4
             dark(v) == ToUint8Clamped(v * (100 - opacity), 100)
         IN  DarkenRowWithAlpha(
                 Set(Set3(d, i, dark(Get(d, i)), dark(Get(d, i + 1)), dark(Get(d, i + 2))),
                     i + 3, dark(Get(d, i + 3))),
                 w, y, x + 1, opacity)

RECURSIVE DarkenRow(_, _, _, _, _)
\* The inner scanline loop from column x on: three "*= (1 - scanlineOpacity)".
DarkenRow(d, w, y, x, opacity) ==
    IF x >= w THEN d
    ELSE LET i == (y * w + x) * 4
             dark(v) == ToUint8Clamped(v * (100 - opacity), 100)
         IN  DarkenRow(Set3(d, i, dark(Get(d, i)), dark(Get(d, i + 1)), dark(Get(d, i + 2))),
                       w, y, x + 1, opacity)

\* One iteration of the outer scanline loop: for (y = 0; y < height; y += 2).
CRTScanlineRow ==
    /\ effect = "CRT_MODULATION"
    /\ pc = "scan"
    /\ pos < height
    /\ data' = DarkenRow(data, width, pos, 0, params.scanlineOpacity)
    /\ touched' = {<<"processedData", (pos * width + x) * 4 + c>> :
                       x \in 0..(width - 1), c \in 0..2}
    /\ pos' = pos + 2
    /\ UNCHANGED <<effect, params, width, height, src, scratch, pc, exact, drawn,
                   call, result>>
    /\ UNCHANGED component

\* The scanline loop is over: clearRect, glow and putImageData.
CRTPutImageData ==
    /\ effect = "CRT_MODULATION"
    /\ pc = "scan"
    /\ pos >= height
    /\ drawn' = << <<"clearRect", 0, 0, width, height>> >>
                 \o (IF params.glow > 0
                     THEN << <<"shadowBlur", params.glow>>, <<"shadowColor", params.glowColor>> >>
                     ELSE <<>>)
                 \o << <<"putImageData", 0, 0>>, <<"shadowBlur", 0>>,
                       <<"shadowColor", "transparent">> >>
    /\ pc' = "done"
    /\ touched' = {}
    /\ UNCHANGED <<effect, params, width, height, src, data, scratch, pos, exact,
                   call, result>>
    /\ UNCHANGED component

\* --------------------------------------- specification of the raw-buffer effects
RawEffects == {"THRESHOLD", "GRAYSCALE", "DITHER_BW", "DITHER_PALETTE", "CRT_MODULATION"}

ParamSets(e) ==
    CASE e \in {"THRESHOLD", "GRAYSCALE"} -> {[level |-> l] : l \in Levels}
      [] e = "DITHER_PALETTE" -> {[factor |-> f] : f \in Factors}
      [] e = "DITHER_BW" ->
            {[factor |-> f, darkColor |-> cp[1], lightColor |-> cp[2]] :
                f \in Factors, cp \in ColorPairs}
      [] e = "CRT_MODULATION" ->
            {[amplitude |-> a, frequency |-> fr, aberration |-> ab, scanlineOpacity |-> so,
              glow |-> gl, glowColor |-> "#818cf8"] :
                a \in Amplitudes, fr \in Frequencies, ab \in Aberrations,
                so \in ScanlineOpacities, gl \in Glows}

\* The processor has been entered on a canvas holding the image: getImageData
\* has returned src; CRT modulation has also created its empty output buffer.
Init ==
    /\ effect \in RawEffects
    /\ params \in ParamSets(effect)
    /\ width \in 1..(IF effect \in {"DITHER_BW", "DITHER_PALETTE"} THEN MaxW ELSE MaxSide)
    /\ height \in 1..(IF effect \in {"DITHER_BW", "DITHER_PALETTE"} THEN MaxH ELSE MaxSide)
    /\ src \in Images(width, height)
    /\ data = IF effect = "CRT_MODULATION" THEN [k \in 1..(width * height * 4) |-> 0] ELSE src
    /\ scratch = <<>>
    /\ pc = IF effect \in {"DITHER_BW", "DITHER_PALETTE"} THEN "start" ELSE "loop"
    /\ pos = 0
    /\ touched = {}
    /\ exact = TRUE
    /\ drawn = <<>>
    /\ call = Unused
    /\ result = NoResult
    /\ NoComponent

Next ==
    \/ ThresholdStep
    \/ GrayscaleStep
    \/ PointPutImageData
    \/ DitherColorStart
    \/ DitherColorStep
    \/ DitherBWStart
    \/ DitherBWStep
    \/ DitherPutImageData
    \/ CRTDisplaceStep
    \/ CRTDisplaceDone
    \/ CRTScanlineRow
    \/ CRTPutImageData

Spec == Init /\ [][Next]_vars

\* Sanity of the arithmetic: no diffusion share was ever rounded.
DiffusionExact == exact

\* ---------------------------------------------------------- exact fractions
\* A JavaScript number that is a fraction is kept as <<numerator, denominator>>
\* in lowest terms, denominator positive.  A division by zero leaves the
\* denominator 0: <<0, 0>> is NaN, <<1, 0>> and <<-1, 0>> are the infinities.
RECURSIVE GCD(_, _)
GCD(a, b) == IF b = 0 THEN a ELSE GCD(b, a % b)
Rat(n, d) ==
    IF d = 0 THEN <<IF n > 0 THEN 1 ELSE IF n < 0 THEN -1 ELSE 0, 0>>
    ELSE LET num == IF d < 0 THEN -n ELSE n
             den == IF d < 0 THEN -d ELSE d
             g == GCD(IF num < 0 THEN -num ELSE num, den)
         IN  <<num \div g, den \div g>>
\* Neither NaN nor an infinity.
IsFinite(a) == a[2] # 0
RatInt(n) == <<n, 1>>
RatAdd(a, b) == Rat(a[1] * b[2] + b[1] * a[2], a[2] * b[2])
RatSub(a, b) == Rat(a[1] * b[2] - b[1] * a[2], a[2] * b[2])
RatMul(a, b) == Rat(a[1] * b[1], a[2] * b[2])
\* a / b for b > 0.
RatDiv(a, b) == Rat(a[1] * b[2], a[2] * b[1])
RatLess(a, b) == a[1] * b[2] < b[1] * a[2]
RatMin(a, b) == IF RatLess(b, a) THEN b ELSE a
\* Math.floor
RatFloor(a) == a[1] \div a[2]

\* The test for black left out.
NeverBlack(k) == FALSE
\* k === 1
IsBlack(k) == k = RatInt(1)

\* rgbToCmyk of three fractions.
rgbToCmyk(r, g, b) ==
    LET c == RatSub(RatInt(1), RatDiv(r, RatInt(255)))
        m == RatSub(RatInt(1), RatDiv(g, RatInt(255)))
        y == RatSub(RatInt(1), RatDiv(b, RatInt(255)))
        k == RatMin(RatMin(c, m), y)
    IN  IF IsBlack(k) THEN <<RatInt(0), RatInt(0), RatInt(0), RatInt(1)>>
        ELSE <<RatDiv(RatSub(c, k), RatSub(RatInt(1), k)),
               RatDiv(RatSub(m, k), RatSub(RatInt(1), k)),
               RatDiv(RatSub(y, k), RatSub(RatInt(1), k)),
               k>>

\* ------------------------------------------------------------ block effects
\* The effects that scan the image block by block and draw one primitive per
\* block.  drawn is the trace of canvas calls and property assignments, each
\* a tuple <<name, arguments...>>; an arc always runs from 0 to 2 pi.
BlockEffects == {"PIXELATE", "DUOTONE_PIXELATE", "HALFTONE_SQUARES", "HALFTONE_CIRCLES",
                 "HALFTONE_LINES", "HALFTONE_COLOR", "ASCII_ART"}

\* The symbol sets of the ASCII effect's select, one string per UTF-16 unit,
\* and the empty string.
SymbolsDefault == <<" ", ".", ":", "-", "=", "+", "*", "#", "%", "@">>
SymbolsBlocks == <<"u2591", "u2592", "u2593", "u2588">>
SymbolsShadows == <<"u25A4", "u25A5", "u25A6", "u25A7", "u25A8", "u25A9", "u2588">>
SymbolsMatrix == <<"u30A2", "u30A4", "u30EB", "u30AA">>
SymbolsEmpty == <<>>
SymbolSets == {SymbolsDefault, SymbolsBlocks, SymbolsShadows, SymbolsMatrix, SymbolsEmpty}

\* The range of the brightnessSteps slider.
MinSteps == 2
MaxSteps == 15

\* Block sizes tried: below the clamp, and up to one less than the largest side.
Sizes == 0..(MaxBlockSide - 1)

\* Math.max(lo, n)
MathMax(lo, n) == IF n < lo THEN lo ELSE n

\* The block size a processor works with: Math.max(1, size), Math.max(2, size)
\* for the colour halftone.
BlockSize(e, p) ==
    CASE e \in {"PIXELATE", "DUOTONE_PIXELATE"} -> MathMax(1, p.pixelSize)
      [] e \in {"HALFTONE_SQUARES", "HALFTONE_CIRCLES", "HALFTONE_LINES"} -> MathMax(1, p.gridSize)
      [] e = "HALFTONE_COLOR" -> MathMax(2, p.gridSize)
      [] e = "ASCII_ART" -> MathMax(1, p.charSize)

\* The test of the accumulation loop without its column half.
InsideRows(blockX, blockY) == blockY < height

\* blockX < width && blockY < height
InsideImage(blockX, blockY) == blockX < width /\ blockY < height

RECURSIVE BlockIndices(_, _, _, _, _)
\* The buffer offsets i the two nested loops over a block accumulate, in
\* order, from cell (blockX, blockY) of the block at (x, y) on.
BlockIndices(x, y, size, blockX, blockY) ==
    IF blockY >= y + size THEN <<>>
    ELSE IF blockX >= x + size THEN BlockIndices(x, y, size, x, blockY + 1)
    ELSE (IF InsideImage(blockX, blockY) THEN <<(blockY * width + blockX) * 4>> ELSE <<>>)
            \o BlockIndices(x, y, size, blockX + 1, blockY)

RECURSIVE TotalChannel(_, _, _)
\* total += data[i + c] over the offsets from the k-th on.
TotalChannel(indices, k, c) ==
    IF k > Len(indices) THEN 0
    ELSE Get(data, indices[k] + c) + TotalChannel(indices, k + 1, c)

RECURSIVE TotalBrightness(_, _)
\* totalBrightness += brightness over the offsets from the k-th on.
TotalBrightness(indices, k) ==
    IF k > Len(indices) THEN 0
    ELSE PixelBrightness(data, indices[k]) + TotalBrightness(indices, k + 1)

\* The accumulators of the block at (x, y) when its two loops are over.
ColorBlock(x, y, size) ==
    LET indices == BlockIndices(x, y, size, x, y)
    IN  [x |-> x, y |-> y,
         total |-> <<TotalChannel(indices, 1, 0), TotalChannel(indices, 1, 1),
                     TotalChannel(indices, 1, 2)>>,
         count |-> Len(indices),
         cells |-> {indices[k] : k \in 1..Len(indices)}]
BrightnessBlock(x, y, size) ==
    LET indices == BlockIndices(x, y, size, x, y)
    IN  [x |-> x, y |-> y,
         total |-> TotalBrightness(indices, 1),
         count |-> Len(indices),
         cells |-> {indices[k] : k \in 1..Len(indices)}]

\* totalBrightness / count
AvgBrightness(block) == Rat(block.total, BrightnessScale * block.count)

\* The reads of one block iteration.
BlockReads(block) == {<<"data", i + c>> : i \in block.cells, c \in 0..2}

\* Math.floor(avgBrightness * brightnessSteps / 256)
AsciiStep(avgBrightness, brightnessSteps) ==
    RatFloor(RatDiv(RatMul(avgBrightness, RatInt(brightnessSteps)), RatInt(256)))
\* The index left unclamped.
CharIndexNoClamp(step, chars) == step
\* Math.min(step, chars.length - 1)
CharIndex(step, chars) == IF step < Len(chars) - 1 THEN step ELSE Len(chars) - 1
\* userChars && userChars.length > 0 ? userChars : ' '
Chars(userChars) == IF Len(userChars) > 0 THEN userChars ELSE <<" ">>
\* chars[charIndex]
CharAt(chars, charIndex) ==
    IF charIndex >= 0 /\ charIndex < Len(chars) THEN chars[charIndex + 1] ELSE "undefined"

\* What a processor does on the canvas before its scan.
Prologue(e, p) ==
    CASE e \in {"PIXELATE", "DUOTONE_PIXELATE"} -> << <<"clearRect", 0, 0, width, height>> >>
      [] e = "HALFTONE_SQUARES" ->
            << <<"fillStyle", p.bgColor>>, <<"fillRect", 0, 0, width, height>>,
               <<"fillStyle", p.squareColor>> >>
      [] e = "HALFTONE_CIRCLES" ->
            << <<"fillStyle", p.bgColor>>, <<"fillRect", 0, 0, width, height>>,
               <<"fillStyle", p.dotColor>> >>
      [] e = "HALFTONE_LINES" ->
            << <<"fillStyle", p.bgColor>>, <<"fillRect", 0, 0, width, height>>,
               <<"fillStyle", p.lineColor>> >>
      [] e = "HALFTONE_COLOR" ->
            << <<"fillStyle", p.bgColor>>, <<"fillRect", 0, 0, width, height>>,
               <<"globalCompositeOperation", "darken">> >>
      [] e = "ASCII_ART" ->
            << <<"fillStyle", p.bgColor>>, <<"fillRect", 0, 0, width, height>>,
               <<"fillStyle", p.textColor>>,
               <<"font", IF p.boldFont THEN "bold" ELSE "normal", BlockSize(e, p)>>,
               <<"textAlign", "center">>, <<"textBaseline", "middle">> >>

\* What a processor does on the canvas after its scan.
Epilogue(e) ==
    IF e = "HALFTONE_COLOR" THEN << <<"globalCompositeOperation", "source-over">> >> ELSE <<>>

\* x + n / d
Plus(x, n, d) == RatAdd(RatInt(x), RatDiv(n, RatInt(d)))

\* Pixelate: the block filled with the floored channel averages.
PixelateDraws(p, block, size) ==
    IF block.count > 0
    THEN << <<"fillStyle", <<"rgb", block.total[1] \div block.count,
                             block.total[2] \div block.count,
                             block.total[3] \div block.count>> >>,
            <<"fillRect", block.x, block.y, size, size>> >>
    ELSE <<>>

\* Duotone with the dark colour also taken at the threshold itself.
DuotoneDrawsDarkAtThreshold(p, block, size) ==
    IF block.count > 0
    THEN << <<"fillStyle", IF RatLess(RatInt(p.threshold), AvgBrightness(block))
                           THEN p.lightColor ELSE p.darkColor>>,
            <<"fillRect", block.x, block.y, size, size>> >>
    ELSE <<>>

\* Duotone: the block filled with the dark colour when the average brightness
\* is below the threshold, else with the light colour.
DuotoneDraws(p, block, size) ==
    IF block.count > 0
    THEN << <<"fillStyle", IF RatLess(AvgBrightness(block), RatInt(p.threshold))
                           THEN p.darkColor ELSE p.lightColor>>,
            <<"fillRect", block.x, block.y, size, size>> >>
    ELSE <<>>

\* The inverted size taken with the subtraction the other way round.
ProportionalMinusExtent(block, extent, invert) ==
    LET part == RatMul(RatDiv(AvgBrightness(block), RatInt(255)), extent)
    IN  IF invert THEN RatSub(part, extent) ELSE part

\* (avgBrightness / 255) * extent, or extent minus that when inverted.
Proportional(block, extent, invert) ==
    LET part == RatMul(RatDiv(AvgBrightness(block), RatInt(255)), extent)
    IN  IF invert THEN RatSub(extent, part) ELSE part

\* Halftone squares: a centred square.
SquaresDraws(p, block, size) ==
    IF block.count > 0
    THEN LET side == Proportional(block, RatInt(size), p.invert)
             margin == RatSub(RatInt(size), side)
         IN  << <<"fillRect", Plus(block.x, margin, 2), Plus(block.y, margin, 2), side, side>> >>
    ELSE <<>>

\* Halftone circles: a centred disc.
CirclesDraws(p, block, size) ==
    IF block.count > 0
    THEN LET radius == Proportional(block, Rat(size, 2), p.invert)
         IN  << <<"beginPath">>,
                <<"arc", Plus(block.x, RatInt(size), 2), Plus(block.y, RatInt(size), 2), radius>>,
                <<"fill">> >>
    ELSE <<>>

\* Halftone lines: a centred bar, vertical or horizontal.
LinesDraws(p, block, size) ==
    IF block.count > 0
    THEN LET thickness == Proportional(block, RatInt(size), p.invert)
             margin == RatSub(RatInt(size), thickness)
         IN  IF p.orientation = "vertical"
             THEN << <<"fillRect", Plus(block.x, margin, 2), RatInt(block.y), thickness,
                       RatInt(size)>> >>
             ELSE << <<"fillRect", RatInt(block.x), Plus(block.y, margin, 2), RatInt(size),
                       thickness>> >>
    ELSE <<>>

\* A dot whose largest radius is half the grid instead of a quarter.
DotOfHalfGrid(style, centerX, centerY, radius) ==
    << <<"fillStyle", style>>, <<"beginPath">>,
       <<"arc", centerX, centerY, RatMul(radius, RatInt(2))>>, <<"fill">> >>

\* One dot of the colour halftone.
Dot(style, centerX, centerY, radius) ==
    << <<"fillStyle", style>>, <<"beginPath">>, <<"arc", centerX, centerY, radius>>, <<"fill">> >>

\* Colour halftone: four dots, cyan, magenta, yellow and black.
ColorDraws(p, block, size) ==
    IF block.count > 0
    THEN LET cmyk == rgbToCmyk(Rat(block.total[1], block.count), Rat(block.total[2], block.count),
                               Rat(block.total[3], block.count))
             quarterGrid == Rat(size, 4)
             maxRadius == quarterGrid
             centerX == Plus(block.x, RatInt(size), 2)
             centerY == Plus(block.y, RatInt(size), 2)
             cmy_k_factor == RatSub(RatInt(1), cmyk[4])
         IN  Dot("cyan", RatSub(centerX, quarterGrid), RatSub(centerY, quarterGrid),
                 RatMul(RatMul(cmyk[1], cmy_k_factor), maxRadius))
             \o Dot("magenta", RatAdd(centerX, quarterGrid), RatSub(centerY, quarterGrid),
                    RatMul(RatMul(cmyk[2], cmy_k_factor), maxRadius))
             \o Dot("yellow", RatSub(centerX, quarterGrid), RatAdd(centerY, quarterGrid),
                    RatMul(RatMul(cmyk[3], cmy_k_factor), maxRadius))
             \o Dot("black", RatAdd(centerX, quarterGrid), RatAdd(centerY, quarterGrid),
                    RatMul(cmyk[4], maxRadius))
    ELSE <<>>

\* ASCII art: the symbol of the block's brightness step, centred.
AsciiDraws(p, block, size) ==
    IF block.count > 0
    THEN LET chars == Chars(p.symbols)
             step == AsciiStep(AvgBrightness(block), p.brightnessSteps)
             charIndex == CharIndex(step, chars)
         IN  << <<"fillText", CharAt(chars, charIndex), Plus(block.x, RatInt(size), 2),
                  Plus(block.y, RatInt(size), 2)>> >>
    ELSE <<>>

\* The processor is entered: getImageData has been taken, the canvas is
\* prepared.
BlockStart ==
    /\ effect \in BlockEffects
    /\ pc = "start"
    /\ drawn' = Prologue(effect, params)
    /\ pc' = "blocks"
    /\ UNCHANGED <<effect, params, width, height, src, data, scratch, pos, touched,
                   exact, call, result>>
    /\ UNCHANGED component

\* The loop variables after the block at pos: x += size, and at the end of a
\* row x = 0, y += size.
NextBlock(size) ==
    IF pos[1] + size < width THEN <<pos[1] + size, pos[2]>> ELSE <<0, pos[2] + size>>

\* One iteration of the inner loop of the scan: the block at pos is
\* accumulated and its primitive drawn.
ScanBlock(block, draws) ==
    /\ pc = "blocks"
    /\ pos[2] < height
    /\ scratch' = Append(scratch, block)
    /\ touched' = BlockReads(block)
    /\ drawn' = drawn \o draws
    /\ pos' = NextBlock(BlockSize(effect, params))
    /\ UNCHANGED <<effect, params, width, height, src, data, pc, exact, call, result>>
    /\ UNCHANGED component

PixelateBlock ==
    /\ effect = "PIXELATE"
    /\ LET size == BlockSize(effect, params)
           block == ColorBlock(pos[1], pos[2], size)
       IN  ScanBlock(block, PixelateDraws(params, block, size))

DuotoneBlock ==
    /\ effect = "DUOTONE_PIXELATE"
    /\ LET size == BlockSize(effect, params)
           block == BrightnessBlock(pos[1], pos[2], size)
       IN  ScanBlock(block, DuotoneDraws(params, block, size))

SquaresBlock ==
    /\ effect = "HALFTONE_SQUARES"
    /\ LET size == BlockSize(effect, params)
           block == BrightnessBlock(pos[1], pos[2], size)
       IN  ScanBlock(block, SquaresDraws(params, block, size))

CirclesBlock ==
    /\ effect = "HALFTONE_CIRCLES"
    /\ LET size == BlockSize(effect, params)
           block == BrightnessBlock(pos[1], pos[2], size)
       IN  ScanBlock(block, CirclesDraws(params, block, size))

LinesBlock ==
    /\ effect = "HALFTONE_LINES"
    /\ LET size == BlockSize(effect, params)
           block == BrightnessBlock(pos[1], pos[2], size)
       IN  ScanBlock(block, LinesDraws(params, block, size))

ColorHalftoneBlock ==
    /\ effect = "HALFTONE_COLOR"
    /\ LET size == BlockSize(effect, params)
           block == ColorBlock(pos[1], pos[2], size)
       IN  ScanBlock(block, ColorDraws(params, block, size))

AsciiBlock ==
    /\ effect = "ASCII_ART"
    /\ LET size == BlockSize(effect, params)
           block == BrightnessBlock(pos[1], pos[2], size)
       IN  ScanBlock(block, AsciiDraws(params, block, size))

\* The scan has left the image: the processor returns.
BlockDone ==
    /\ effect \in BlockEffects
    /\ pc = "blocks"
    /\ pos[2] >= height
    /\ drawn' = drawn \o Epilogue(effect)
    /\ pc' = "done"
    /\ touched' = {}
    /\ UNCHANGED <<effect, params, width, height, src, data, scratch, pos, exact,
                   call, result>>
    /\ UNCHANGED component

\* ---------------------------------------------------------- neon silhouette
\* The effect samples the pixel at every dotSize-th column of every dotSize-th
\* row and draws a glowing dot on black where the sample passes the test.  The
\* step of its two loops is params.dotSize as it was handed in.  scratch
\* keeps one record per iteration of the inner loop.

\* Iterations of the sampling loop followed in one run: one more than a scan
\* of the largest image with step 1 makes.
MaxIterations == MaxBlockSide * MaxBlockSide + 1

\* The test with the two comparisons made non-strict.
IsTargetOrEqual(invert, brightness, threshold) ==
    IF invert THEN brightness <= threshold * BrightnessScale
    ELSE brightness >= threshold * BrightnessScale

\* invert ? (brightness < threshold) : (brightness > threshold)
IsTarget(invert, brightness, threshold) ==
    IF invert THEN brightness < threshold * BrightnessScale
    ELSE brightness > threshold * BrightnessScale

\* The sample at (x, y): i = (y * width + x) * 4 and the brightness of data[i],
\* data[i + 1], data[i + 2].  An index outside the array reads undefined, the
\* brightness is then NaN and both comparisons are false.
NeonSample(x, y) ==
    LET i == (y * width + x) * 4
        defined == InRange(data, i) /\ InRange(data, i + 2)
    IN  [x |-> x, y |-> y, i |-> i, defined |-> defined,
         brightness |-> IF defined THEN PixelBrightness(data, i) ELSE 0,
         cells |-> IF defined THEN {i} ELSE {}]

\* The dot drawn for a sample that passes: fillStyle, shadowColor, shadowBlur
\* = dotSize * 2, beginPath, arc(x, y, dotSize * 0.5, 0, 2 pi), fill.
NeonDraws(p, sample) ==
    IF sample.defined /\ IsTarget(p.invert, sample.brightness, p.threshold)
    THEN << <<"fillStyle", "rgba(230, 255, 255, 0.9)">>,
            <<"shadowColor", "rgba(150, 220, 255, 0.7)">>,
            <<"shadowBlur", p.dotSize * 2>>,
            <<"beginPath">>,
            <<"arc", RatInt(sample.x), RatInt(sample.y), Rat(p.dotSize, 2)>>,
            <<"fill">> >>
    ELSE <<>>

\* The processor is entered: getImageData, clearRect, the black background.
NeonStart ==
    /\ effect = "NEON_SILHOUETTE"
    /\ pc = "start"
    /\ drawn' = << <<"clearRect", 0, 0, width, height>>, <<"fillStyle", "#000000">>,
                   <<"fillRect", 0, 0, width, height>> >>
    /\ pc' = "samples"
    /\ UNCHANGED <<effect, params, width, height, src, data, scratch, pos, touched,
                   exact, call, result>>
    /\ UNCHANGED component

\* One iteration of the inner loop: for (x = 0; x < width; x += dotSize) inside
\* for (y = 0; y < height; y += dotSize).
NeonStep ==
    /\ effect = "NEON_SILHOUETTE"
    /\ pc = "samples"
    /\ pos[2] < height
    /\ Len(scratch) < MaxIterations
    /\ LET sample == NeonSample(pos[1], pos[2])
       IN  /\ scratch' = Append(scratch, sample)
           /\ touched' = BlockReads(sample)
           /\ drawn' = drawn \o NeonDraws(params, sample)
    /\ pos' = NextBlock(params.dotSize)
    /\ UNCHANGED <<effect, params, width, height, src, data, pc, exact, call, result>>
    /\ UNCHANGED component

\* The outer loop is over: ctx.shadowBlur = 0 and return.
NeonDone ==
    /\ effect = "NEON_SILHOUETTE"
    /\ pc = "samples"
    /\ pos[2] >= height
    /\ drawn' = Append(drawn, <<"shadowBlur", 0>>)
    /\ pc' = "done"
    /\ touched' = {}
    /\ UNCHANGED <<effect, params, width, height, src, data, scratch, pos, exact,
                   call, result>>
    /\ UNCHANGED component

\* Dot sizes tried: a negative one, 0, and the sizes up to one less than the
\* largest side.
DotSizes == (-1)..(MaxBlockSide - 1)

\* The effects that scan the image in steps of a size parameter.
ScanEffects == BlockEffects \cup {"NEON_SILHOUETTE"}

\* Images put through the block effects.
BlockImages(w, h) == {Image(w, h, a, b, c) : a \in {1}, b \in 0..1, c \in {0, 3, 4}}

BlockParamSets(e) ==
    CASE e = "PIXELATE" -> {[pixelSize |-> n] : n \in Sizes}
      [] e = "DUOTONE_PIXELATE" ->
            {[pixelSize |-> n, threshold |-> 128, darkColor |-> "#1f2e69",
              lightColor |-> "#d3e099"] : n \in Sizes}
      [] e = "HALFTONE_SQUARES" ->
            {[gridSize |-> n, invert |-> i, squareColor |-> "#000000", bgColor |-> "#FFFFFF"] :
                n \in Sizes, i \in BOOLEAN}
      [] e = "HALFTONE_CIRCLES" ->
            {[gridSize |-> n, invert |-> i, dotColor |-> "#000000", bgColor |-> "#FFFFFF"] :
                n \in Sizes, i \in BOOLEAN}
      [] e = "HALFTONE_LINES" ->
            {[gridSize |-> n, orientation |-> o, invert |-> i, lineColor |-> "#000000",
              bgColor |-> "#FFFFFF"] :
                n \in Sizes, o \in {"vertical", "horizontal"}, i \in BOOLEAN}
      [] e = "HALFTONE_COLOR" -> {[gridSize |-> n, bgColor |-> "#FFFFFF"] : n \in Sizes}
      [] e = "ASCII_ART" ->
            {[charSize |-> n, brightnessSteps |-> st, textColor |-> "#E5E7EB",
              bgColor |-> "#111827", boldFont |-> bf, symbols |-> sy] :
                n \in Sizes, st \in {MinSteps, MaxSteps}, bf \in BOOLEAN,
                sy \in {SymbolsDefault, SymbolsEmpty}}
      [] e = "NEON_SILHOUETTE" ->
            {[threshold |-> 128, dotSize |-> n, invert |-> i] : n \in DotSizes, i \in BOOLEAN}

InitBlock ==
    /\ effect \in ScanEffects
    /\ params \in BlockParamSets(effect)
    /\ width \in 1..MaxBlockSide
    /\ height \in 1..MaxBlockSide
    /\ src \in BlockImages(width, height)
    /\ data = src
    /\ scratch = <<>>
    /\ pc = "start"
    /\ pos = <<0, 0>>
    /\ touched = {}
    /\ exact = TRUE
    /\ drawn = <<>>
    /\ call = Unused
    /\ result = NoResult
    /\ NoComponent

NextBlockEffects ==
    \/ BlockStart
    \/ PixelateBlock
    \/ DuotoneBlock
    \/ SquaresBlock
    \/ CirclesBlock
    \/ LinesBlock
    \/ ColorHalftoneBlock
    \/ AsciiBlock
    \/ BlockDone
    \/ NeonStart
    \/ NeonStep
    \/ NeonDone

SpecBlock == InitBlock /\ [][NextBlockEffects]_vars

\* ------------------------------------------- findClosestColor on its own
\* Channel values tried, in halves (a scratch cell may hold a fraction): 0,
\* 0.5, 1, 1.5, 255.
HalfChannels == {0, 1, 2, 3, 510}
\* The colours tried: red varies in halves, green is 0 or 1, blue is 0.
HalfColors == {<<r, g, 0>> : r \in HalfChannels, g \in {0, 2}}
\* Palette entries tried: neighbours at equal distance from some of the
\* colours above, and one far entry.
PaletteColors == {<<0, 0, 0>>, <<1, 0, 0>>, <<0, 1, 0>>, <<255, 147, 0>>}
\* Non-empty palettes, repeats allowed.
Palettes == UNION {[1..n -> PaletteColors] : n \in 1..MaxPalette}

\* n / 2 as a scratch-cell value.
FixFromHalves(n) == <<n \div 2, (n % 2) * (LimbBase \div 2)>> \o Zeros(FracLimbs - 1)

InitNearest ==
    /\ effect = "findClosestColor"
    /\ call \in [color : HalfColors, palette : Palettes]
    /\ result = NoResult
    /\ params = Unused
    /\ width = 0
    /\ height = 0
    /\ src = <<>>
    /\ data = <<>>
    /\ scratch = <<>>
    /\ pc = "call"
    /\ pos = 0
    /\ touched = {}
    /\ exact = TRUE
    /\ drawn = <<>>
    /\ NoComponent

\* closest = findClosestColor(color, palette)
FindClosestColorCall ==
    /\ effect = "findClosestColor"
    /\ pc = "call"
    /\ result' = findClosestColor(<<FixFromHalves(call.color[1]), FixFromHalves(call.color[2]),
                                    FixFromHalves(call.color[3])>>, call.palette)
    /\ pc' = "done"
    /\ UNCHANGED <<effect, params, width, height, src, data, scratch, pos, touched,
                   exact, drawn, call>>
    /\ UNCHANGED component

NextNearest == FindClosestColorCall

SpecNearest == InitNearest /\ [][NextNearest]_vars

\* ------------------------------------------ the ASCII step mapping on its own
\* Average brightnesses tried: every half from 0 to 255.
HalfBrightnesses == 0..510

InitAscii ==
    /\ effect = "ASCII_ART"
    /\ call \in [avgBrightness : {Rat(h, 2) : h \in HalfBrightnesses},
                 brightnessSteps : MinSteps..MaxSteps,
                 symbols : SymbolSets]
    /\ result = NoResult
    /\ params = Unused
    /\ width = 0
    /\ height = 0
    /\ src = <<>>
    /\ data = <<>>
    /\ scratch = <<>>
    /\ pc = "symbol"
    /\ pos = 0
    /\ touched = {}
    /\ exact = TRUE
    /\ drawn = <<>>
    /\ NoComponent

\* The symbol the ASCII processor picks for a block of the given average
\* brightness: chars, step, charIndex, char.
AsciiSymbolCall ==
    /\ effect = "ASCII_ART"
    /\ pc = "symbol"
    /\ LET chars == Chars(call.symbols)
           step == AsciiStep(call.avgBrightness, call.brightnessSteps)
           charIndex == CharIndex(step, chars)
       IN  result' = [chars |-> chars, step |-> step, charIndex |-> charIndex,
                      char |-> CharAt(chars, charIndex)]
    /\ pc' = "returned"
    /\ UNCHANGED <<effect, params, width, height, src, data, scratch, pos, touched,
                   exact, drawn, call>>
    /\ UNCHANGED component

NextAscii == AsciiSymbolCall

SpecAscii == InitAscii /\ [][NextAscii]_vars

\* ------------------------------------------------- rgbToCmyk on its own
\* Channel values tried, in halves (a block average may be a fraction): 0,
\* 0.5, 1, 127.5, 128, 254.5, 255.
CmykHalves == {0, 1, 2, 255, 256, 509, 510}

InitCmyk ==
    /\ effect = "rgbToCmyk"
    /\ call \in [r : CmykHalves, g : CmykHalves, b : CmykHalves]
    /\ result = NoResult
    /\ params = Unused
    /\ width = 0
    /\ height = 0
    /\ src = <<>>
    /\ data = <<>>
    /\ scratch = <<>>
    /\ pc = "call"
    /\ pos = 0
    /\ touched = {}
    /\ exact = TRUE
    /\ drawn = <<>>
    /\ NoComponent

\* [c, m, y_cmyk, k] = rgbToCmyk(avgR, avgG, avgB)
RgbToCmykCall ==
    /\ effect = "rgbToCmyk"
    /\ pc = "call"
    /\ result' = rgbToCmyk(Rat(call.r, 2), Rat(call.g, 2), Rat(call.b, 2))
    /\ pc' = "returned"
    /\ UNCHANGED <<effect, params, width, height, src, data, scratch, pos, touched,
                   exact, drawn, call>>
    /\ UNCHANGED component

NextCmyk == RgbToCmykCall

SpecCmyk == InitCmyk /\ [][NextCmyk]_vars

\* ---------------------------------- hexToRgb on its own and in its caller
\* Characters the strings tried are made of: the '#', a decimal digit, a
\* lower-case and an upper-case hex digit, and a letter that is no hex digit.
HexAlphabet == {"#", "0", "a", "F", "g"}
HexStrings == UNION {[1..n -> HexAlphabet] : n \in 0..MaxHexLen}
\* Colour strings handed to two-colour dithering, well-formed and malformed.
BWColors == {HexBlack, HexWhite, HexNavy, HexLime, HexBadDigit, HexShort}

\* Either hexToRgb is about to be called on a string, or two-colour dithering
\* is entered with a pair of colour strings.
InitHex ==
    /\ \/ /\ effect = "hexToRgb"
          /\ call \in [hex : HexStrings]
          /\ params = Unused
          /\ width = 0
          /\ height = 0
          /\ src = <<>>
          /\ pc = "call"
       \/ /\ effect = "DITHER_BW"
          /\ call = Unused
          /\ params \in [factor : {2}, darkColor : BWColors, lightColor : BWColors]
          /\ width \in 1..MaxHexSide
          /\ height \in 1..MaxHexSide
          /\ src \in {Image(width, height, 1, 1, c) : c \in 0..(Len(SamplePixels) - 1)}
          /\ pc = "start"
    /\ data = src
    /\ result = NoResult
    /\ scratch = <<>>
    /\ pos = 0
    /\ touched = {}
    /\ exact = TRUE
    /\ drawn = <<>>
    /\ NoComponent

\* result = hexToRgb(hex)
HexToRgbCall ==
    /\ effect = "hexToRgb"
    /\ pc = "call"
    /\ result' = hexToRgb(call.hex)
    /\ pc' = "returned"
    /\ UNCHANGED <<effect, params, width, height, src, data, scratch, pos, touched,
                   exact, drawn, call>>
    /\ UNCHANGED component

NextHex ==
    \/ HexToRgbCall
    \/ DitherBWStart
    \/ DitherBWStep
    \/ DitherPutImageData

SpecHex == InitHex /\ [][NextHex]_vars

\* ------------------------------------------------------ the effect catalog
\* Slider bounds, steps and values are held in units of 1/ParamScale: the
\* finest step of the catalog is 0.01.
ParamScale == 100

\* The parameter specs of types.ts, as records of one shape.
Slider(id, min, max, step, defaultValue) ==
    [id |-> id, type |-> "slider", min |-> min, max |-> max, step |-> step,
     defaultValue |-> defaultValue, options |-> <<>>]
Toggle(id, defaultValue) ==
    [id |-> id, type |-> "toggle", min |-> 0, max |-> 0, step |-> 0,
     defaultValue |-> defaultValue, options |-> <<>>]
Color(id, defaultValue) ==
    [id |-> id, type |-> "color", min |-> 0, max |-> 0, step |-> 0,
     defaultValue |-> defaultValue, options |-> <<>>]
Select(id, defaultValue, options) ==
    [id |-> id, type |-> "select", min |-> 0, max |-> 0, step |-> 0,
     defaultValue |-> defaultValue, options |-> options]

\* An effect definition: its id, its parameter list, and the keys its
\* processor reads from the parameter set it is handed.
Definition(id, paramList, reads) == [id |-> id, params |-> paramList, reads |-> reads]

\* The symbols select with a default that is none of its options.
SymbolsParamUnlisted ==
    Select("symbols", SymbolsEmpty,
           <<SymbolsDefault, SymbolsBlocks, SymbolsShadows, SymbolsMatrix>>)
\* The symbols select of both ASCII effects.
SymbolsParam ==
    Select("symbols", SymbolsDefault,
           <<SymbolsDefault, SymbolsBlocks, SymbolsShadows, SymbolsMatrix>>)

\* The CRT processor reading a key its parameter list does not declare.
CRTReadsUndeclared ==
    {"amplitude", "frequency", "aberration", "scanlineOpacity", "glow", "glowColor", "offset"}
\* The keys the CRT processor reads.
CRTReads == {"amplitude", "frequency", "aberration", "scanlineOpacity", "glow", "glowColor"}

\* EFFECTS of constants.ts.
EFFECTS ==
    << Definition("DUOTONE_PIXELATE",
                  << Slider("pixelSize", 200, 5000, 100, 1000),
                     Slider("threshold", 100, 25400, 100, 12800),
                     Color("darkColor", "#1f2e69"),
                     Color("lightColor", "#d3e099") >>,
                  {"pixelSize", "threshold", "darkColor", "lightColor"}),
       Definition("HALFTONE_SQUARES",
                  << Slider("gridSize", 200, 4000, 100, 1000),
                     Toggle("invert", FALSE),
                     Color("squareColor", "#000000"),
                     Color("bgColor", "#FFFFFF") >>,
                  {"gridSize", "invert", "squareColor", "bgColor"}),
       Definition("HALFTONE_CIRCLES",
                  << Slider("gridSize", 200, 4000, 100, 1000),
                     Toggle("invert", FALSE),
                     Color("dotColor", "#000000"),
                     Color("bgColor", "#FFFFFF") >>,
                  {"gridSize", "invert", "dotColor", "bgColor"}),
       Definition("HALFTONE_LINES",
                  << Slider("gridSize", 200, 4000, 100, 800),
                     Select("orientation", "vertical", <<"vertical", "horizontal">>),
                     Toggle("invert", FALSE),
                     Color("lineColor", "#000000"),
                     Color("bgColor", "#FFFFFF") >>,
                  {"gridSize", "invert", "lineColor", "bgColor", "orientation"}),
       Definition("HALFTONE_COLOR",
                  << Slider("gridSize", 400, 4000, 200, 1200),
                     Color("bgColor", "#FFFFFF") >>,
                  {"gridSize", "bgColor"}),
       Definition("ASCII_ART",
                  << Slider("charSize", 400, 2000, 100, 800),
                     Slider("brightnessSteps", 200, 1500, 100, 700),
                     Color("textColor", "#E5E7EB"),
                     Color("bgColor", "#111827"),
                     Toggle("boldFont", FALSE),
                     SymbolsParam >>,
                  {"charSize", "brightnessSteps", "textColor", "bgColor", "boldFont",
                   "symbols"}),
       Definition("NEON_SILHOUETTE",
                  << Toggle("invert", FALSE),
                     Slider("threshold", 100, 25400, 100, 12800),
                     Slider("dotSize", 100, 1000, 100, 300) >>,
                  {"threshold", "dotSize", "invert"}),
       Definition("CRT_MODULATION",
                  << Slider("amplitude", 0, 5000, 100, 500),
                     Slider("frequency", 1, 50, 1, 10),
                     Slider("aberration", 0, 2000, 100, 200),
                     Slider("scanlineOpacity", 0, 50, 1, 15),
                     Slider("glow", 0, 2000, 100, 1000),
                     Color("glowColor", "#818cf8") >>,
                  CRTReads) >>

\* EFFECTS of the earlier catalog (part_001).
EFFECTS_part_001 ==
    << Definition("PIXELATE",
                  << Slider("pixelSize", 200, 5000, 100, 1000) >>,
                  {"pixelSize"}),
       Definition("DITHER_BW",
                  << Slider("factor", 10, 100, 5, 100),
                     Color("darkColor", "#000000"),
                     Color("lightColor", "#FFFFFF") >>,
                  {"darkColor", "lightColor", "factor"}),
       Definition("DITHER_PALETTE",
                  << Slider("factor", 10, 100, 5, 100) >>,
                  {"factor"}),
       Definition("GRAYSCALE",
                  << Slider("level", 100, 25400, 100, 100) >>,
                  {"level"}),
       Definition("THRESHOLD",
                  << Slider("level", 100, 25400, 100, 12800) >>,
                  {"level"}),
       Definition("ASCII_ART",
                  << Slider("charSize", 400, 2000, 100, 800),
                     Slider("brightnessSteps", 200, 1500, 100, 700),
                     Color("textColor", "#E5E7EB"),
                     Color("bgColor", "#111827"),
                     Toggle("boldFont", FALSE),
                     SymbolsParam >>,
                  {"charSize", "brightnessSteps", "textColor", "bgColor", "boldFont",
                   "symbols"}),
       Definition("NEON_SILHOUETTE",
                  << Toggle("invert", FALSE),
                     Slider("threshold", 100, 25400, 100, 12800),
                     Slider("dotSize", 100, 1000, 100, 300) >>,
                  {"threshold", "dotSize", "invert"}) >>

\* ------------------------------------------- the ImageProcessor component
\* The two versions of the component, each with the catalog it imports: the
\* later one (part_004) keeps presets, the earlier one (part_005) does not.
Components == {"part_004", "part_005"}
Catalog == IF effect = "part_004" THEN EFFECTS ELSE EFFECTS_part_001
\* useState<EffectType>(..): the effect chosen when the component mounts.
InitialEffect == IF effect = "part_004" THEN "DUOTONE_PIXELATE" ELSE "PIXELATE"

\* EFFECTS.find(e => e.id === id): the index of the first match, 0 for undefined.
FindIndex(id) ==
    IF \E i \in 1..Len(Catalog) : Catalog[i].id = id
    THEN CHOOSE i \in 1..Len(Catalog) :
            /\ Catalog[i].id = id
            /\ \A j \in 1..(i - 1) : Catalog[j].id # id
    ELSE 0
\* EFFECTS.find(..) || EFFECTS[Len]: the fallback taken from the other end.
selectedEffectLast(id) ==
    IF FindIndex(id) # 0 THEN Catalog[FindIndex(id)] ELSE Catalog[Len(Catalog)]
\* const selectedEffect = EFFECTS.find(e => e.id === activeEffect) || EFFECTS[0]
selectedEffect(id) == IF FindIndex(id) # 0 THEN Catalog[FindIndex(id)] ELSE Catalog[1]

\* initialParams of the default-params effect: every parameter at its default.
InitialParams(definition) ==
    [k \in {definition.params[i].id : i \in 1..Len(definition.params)} |->
        LET i == CHOOSE j \in 1..Len(definition.params) : definition.params[j].id = k
        IN  definition.params[i].defaultValue]

\* { ...prev, [paramId]: value }
WithParam(prev, paramId, value) ==
    [k \in DOMAIN prev \cup {paramId} |-> IF k = paramId THEN value ELSE prev[k]]

\* What renderParamControl shows for a parameter: the value held when it has
\* the control's type, the default otherwise.
Shown(param, held) ==
    IF param.id \in DOMAIN held
    THEN LET value == held[param.id]
         IN  CASE param.type = "slider" -> IF value \in Int THEN value ELSE param.defaultValue
               [] param.type = "toggle" -> IF value \in BOOLEAN THEN value
                                           ELSE param.defaultValue
               [] OTHER -> value
    ELSE param.defaultValue
\* The values a control can hand to handleParamChange: an end of the slider's
\* range, the other state of the toggle, a picked colour, a listed option.
ControlValues(param, held) ==
    CASE param.type = "slider" -> {param.min, param.max}
      [] param.type = "toggle" -> {~Shown(param, held)}
      [] param.type = "color" -> {"#ff0000"}
      [] OTHER -> {param.options[i] : i \in 1..Len(param.options)}

\* A preset name is the sequence of its characters.
WhiteSpace == {" ", "\t", "\n"}
\* String.prototype.trim: the string without its leading and trailing
\* white space.
RECURSIVE trimStart(_)
trimStart(s) == IF s # <<>> /\ Head(s) \in WhiteSpace THEN trimStart(Tail(s)) ELSE s
RECURSIVE trimEnd(_)
trimEnd(s) ==
    IF s # <<>> /\ s[Len(s)] \in WhiteSpace THEN trimEnd(SubSeq(s, 1, Len(s) - 1)) ELSE s
trim(s) == trimEnd(trimStart(s))

\* What localStorage may hold when the component mounts: nothing, a preset of
\* this catalog, or a preset whose effect id this catalog does not list.
StoredPresets ==
    { <<>>,
      <<[name |-> <<"s">>, effectId |-> "HALFTONE_COLOR",
         params |-> [gridSize |-> 400, bgColor |-> "#ff0000"]]>>,
      <<[name |-> <<"s">>, effectId |-> "THRESHOLD", params |-> [level |-> 12800]]>> }
\* What the user may have typed into the preset name field: nothing, white
\* space only, a stored name with and without white space around it, a
\* name not stored yet.
TypedNames == { <<>>, <<" ", "\t">>, <<"s">>, <<" ", "s", " ">>, <<"o">> }
\* The message handleSavePreset hands to setError, without its accents.
BlankNameError == "O nome da predefinicao nao pode estar vazio."
\* The files the user uploads in turn; every upload makes a new Image.
Files == {"image", "next image"}

\* The component after it has mounted: no image, the initial effect with the
\* parameters the default-params effect set, the presets read from storage.
InitComponent ==
    /\ effect \in Components
    /\ originalImage = Null
    /\ activeEffect = InitialEffect
    /\ effectParams = InitialParams(selectedEffect(activeEffect))
    /\ presets \in IF effect = "part_004" THEN StoredPresets ELSE {<<>>}
    /\ timers = <<>>
    /\ events = 0
    /\ isLoading = FALSE
    /\ error = Null
    /\ pc = "idle"
    /\ call = Unused
    /\ result = NoResult
    /\ params = Unused
    /\ width = 0
    /\ height = 0
    /\ src = <<>>
    /\ data = <<>>
    /\ scratch = <<>>
    /\ pos = 0
    /\ touched = {}
    /\ exact = TRUE
    /\ drawn = <<>>

\* processImage in the render whose state is (img, id, held): nothing without
\* an image, otherwise a timeout whose callback keeps that render's
\* originalImage, selectedEffect and effectParams.  seq numbers the timeouts
\* in the order setTimeout was called.
processImage(img, id, held, seq) ==
    IF img = Null THEN <<>>
    ELSE <<[originalImage |-> img, activeEffect |-> id,
            selectedEffect |-> selectedEffect(id).id, effectParams |-> held,
            seq |-> seq]>>

\* The commits, were processImage not run again by the render that follows
\* setEffectParams(initialParams).
CommitOnce(img, id, held) ==
    /\ effectParams' = IF id # activeEffect THEN InitialParams(selectedEffect(id)) ELSE held
    /\ timers' = timers \o processImage(img, id, held, 2 * events + 1)
    /\ isLoading' = IF img = Null THEN isLoading ELSE TRUE
    /\ error' = IF img = Null THEN error ELSE Null

\* The commits that follow a state change to (img, id, held), up to the
\* render that sets nothing more.  In the first, the default-params effect
\* runs when activeEffect changed and the processImage effect runs with that
\* render's parameters; the render caused by setEffectParams(initialParams)
\* runs the processImage effect again.  Every processImage that finds an
\* image calls setIsLoading(true) and setError(null).
Commit(img, id, held) ==
    /\ IF id # activeEffect
       THEN /\ effectParams' = InitialParams(selectedEffect(id))
            /\ timers' = timers \o processImage(img, id, held, 2 * events + 1)
                                \o processImage(img, id, InitialParams(selectedEffect(id)),
                                                2 * events + 2)
       ELSE /\ effectParams' = held
            /\ timers' = timers \o processImage(img, id, held, 2 * events + 1)
    /\ isLoading' = IF img = Null THEN isLoading ELSE TRUE
    /\ error' = IF img = Null THEN error ELSE Null

\* A user event is handled while the bounds leave room for it.
Room == events < MaxEvents /\ Len(timers) + 2 <= MaxTimers

\* img.onload of handleImageUpload: setOriginalImage(img) with the new Image.
ImageLoaded ==
    /\ effect \in Components
    /\ Room
    /\ \E img \in Files :
          /\ img # originalImage
          /\ originalImage = Null => img = "image"
          /\ originalImage' = img
          /\ Commit(img, activeEffect, effectParams)
    /\ events' = events + 1
    /\ UNCHANGED <<activeEffect, presets>>
    /\ UNCHANGED engine

\* A click on an effect button: setActiveEffect(effect.id).
SetActiveEffect ==
    /\ effect \in Components
    /\ Room
    /\ originalImage # Null
    /\ \E i \in 1..Len(Catalog) :
          /\ Catalog[i].id # activeEffect
          /\ activeEffect' = Catalog[i].id
          /\ Commit(originalImage, Catalog[i].id, effectParams)
    /\ events' = events + 1
    /\ UNCHANGED <<originalImage, presets>>
    /\ UNCHANGED engine

\* handleParamChange from one of the controls rendered for selectedEffect.
HandleParamChange ==
    /\ effect \in Components
    /\ Room
    /\ originalImage # Null
    /\ LET shown == selectedEffect(activeEffect).params
       IN  \E i \in 1..Len(shown) : \E value \in ControlValues(shown[i], effectParams) :
              Commit(originalImage, activeEffect, WithParam(effectParams, shown[i].id, value))
    /\ events' = events + 1
    /\ UNCHANGED <<originalImage, activeEffect, presets>>
    /\ UNCHANGED engine

\* findIndex, were no preset ever found.
findIndexNone(prev, name) == 0

\* Array.prototype.findIndex for the name test of handleSavePreset: the
\* position (from 1) of the first preset of that name, 0 when there is none
\* (the code's -1).
findIndex(prev, name) ==
    IF \E i \in 1..Len(prev) : prev[i].name = name
    THEN CHOOSE i \in 1..Len(prev) :
            /\ prev[i].name = name
            /\ \A j \in 1..(i - 1) : prev[j].name # name
    ELSE 0

\* handleSavePreset with newPresetName typed: a blank name only sets the
\* error; otherwise the first preset of the trimmed name is replaced where it
\* stands, or the new preset is appended, and the error is cleared.  Neither
\* processImage nor the default-params effect runs.
SavePreset(newPresetName) ==
    /\ effect = "part_004"
    /\ Room
    /\ originalImage # Null
    /\ IF trim(newPresetName) = <<>>
       THEN /\ error' = BlankNameError
            /\ presets' = presets
       ELSE LET newPreset == [name |-> trim(newPresetName), effectId |-> activeEffect,
                              params |-> effectParams]
                existingIndex == findIndex(presets, newPreset.name)
            IN  /\ IF existingIndex > 0
                   THEN presets' = [presets EXCEPT ![existingIndex] = newPreset]
                   ELSE /\ Len(presets) < MaxPresets
                        /\ presets' = Append(presets, newPreset)
                /\ error' = Null
    /\ events' = events + 1
    /\ UNCHANGED <<originalImage, activeEffect, effectParams, timers, isLoading>>
    /\ UNCHANGED engine

HandleSavePreset == \E newPresetName \in TypedNames : SavePreset(newPresetName)

\* handleApplyPreset: setActiveEffect(preset.effectId); setEffectParams(preset.params).
HandleApplyPreset ==
    /\ effect = "part_004"
    /\ Room
    /\ originalImage # Null
    /\ \E i \in 1..Len(presets) :
          /\ activeEffect' = presets[i].effectId
          /\ Commit(originalImage, presets[i].effectId, presets[i].params)
    /\ events' = events + 1
    /\ UNCHANGED <<originalImage, presets>>
    /\ UNCHANGED engine

\* handleDeletePreset(presetName) from the delete button of a listed preset:
\* prev.filter(p => p.name !== presetName).
DeletePreset(presetName) ==
    /\ effect = "part_004"
    /\ Room
    /\ originalImage # Null
    /\ \E i \in 1..Len(presets) : presets[i].name = presetName
    /\ LET Kept(p) == p.name # presetName
       IN  presets' = SelectSeq(presets, Kept)
    /\ events' = events + 1
    /\ UNCHANGED <<originalImage, activeEffect, effectParams, timers, isLoading, error>>
    /\ UNCHANGED engine

HandleDeletePreset == \E i \in 1..Len(presets) : DeletePreset(presets[i].name)

\* The callback of the oldest timeout: selectedEffect.processor(processedCtx,
\* width, height, effectParams) on the image drawn first, all with the values
\* its render held; the routine returns, and finally setIsLoading(false).
TimeoutFires ==
    /\ effect \in Components
    /\ timers # <<>>
    /\ call' = Head(timers)
    /\ timers' = Tail(timers)
    /\ pc' = "invoked"
    /\ isLoading' = FALSE
    /\ UNCHANGED <<effect, params, width, height, src, data, scratch, pos, touched,
                   exact, drawn, result>>
    /\ UNCHANGED <<originalImage, activeEffect, effectParams, presets, events, error>>

NextComponent ==
    \/ ImageLoaded
    \/ SetActiveEffect
    \/ HandleParamChange
    \/ HandleSavePreset
    \/ HandleApplyPreset
    \/ HandleDeletePreset
    \/ TimeoutFires

SpecComponent == InitComponent /\ [][NextComponent]_vars

\* =================================================================== claims
\* Pixel p of a buffer, as <<r, g, b>>, and its alpha.
Rgb(d, p) == <<d[4 * p + 1], d[4 * p + 2], d[4 * p + 3]>>
Alpha(d, p) == d[4 * p + 4]
Pixels == 0..(width * height - 1)
\* Every pixel of the source has the colour c.
UniformSource(c) == \A p \in Pixels : Rgb(src, p) = c
InPlaceEffects == {"THRESHOLD", "GRAYSCALE", "DITHER_BW", "DITHER_PALETTE"}

\* C1: Threshold: every pixel the loop has passed is white (255, 255, 255) when
\* the brightness 0.2126 R + 0.7152 G + 0.0722 B of its source pixel is strictly
\* above the level and black (0, 0, 0) otherwise; when the processor is done
\* that is every pixel.
Thm_C1_Threshold ==
    effect = "THRESHOLD" =>
        /\ pc = "done" => pos >= width * height * 4
        /\ \A p \in Pixels :
              4 * p < pos =>
                 LET s == Rgb(src, p)
                     b == 2126 * s[1] + 7152 * s[2] + 722 * s[3]
                 IN  Rgb(data, p) = IF b > params.level * 10000
                                    THEN <<255, 255, 255>> ELSE <<0, 0, 0>>

\* C1 happens: a 4 x 4 buffer of (128, 128, 128) went through Threshold with
\* level 128 and is black everywhere.
Wit_C1_Threshold ==
    /\ effect = "THRESHOLD"
    /\ pc = "done"
    /\ params.level = 128
    /\ width = 4
    /\ height = 4
    /\ UniformSource(<<128, 128, 128>>)
    /\ \A p \in Pixels : Rgb(data, p) = <<0, 0, 0>>

\* C2: Threshold, Grayscale and both dithering routines leave the alpha byte of
\* every pixel as it was in the source, in every state of the processing.
Thm_C2_AlphaKept ==
    effect \in InPlaceEffects => \A p \in Pixels : Alpha(data, p) = Alpha(src, p)

\* C2 happens: an in-place effect is done, it changed the colour of a pixel
\* whose alpha is not 255, and that alpha is still there.
Wit_C2_AlphaKept ==
    /\ effect \in InPlaceEffects
    /\ pc = "done"
    /\ \E p \in Pixels :
          /\ Alpha(src, p) # 255
          /\ Rgb(data, p) # Rgb(src, p)
          /\ Alpha(data, p) = Alpha(src, p)

\* C3: the buffer always has length width * height * 4, the scratch array of
\* a dithering routine width * height * 3 (palette) or width * height
\* (two-colour) cells, and every index a step reads or writes lies inside the
\* array it addresses.
Thm_C3_InBounds ==
    /\ Len(data) = width * height * 4
    /\ Len(src) = width * height * 4
    /\ (effect = "DITHER_PALETTE" /\ pc # "start") => Len(scratch) = width * height * 3
    /\ (effect = "DITHER_BW" /\ pc # "start") => Len(scratch) = width * height
    /\ \A t \in touched :
          /\ t[2] >= 0
          /\ t[1] \in {"data", "originalData", "processedData"} => t[2] < width * height * 4
          /\ t[1] = "pixelData" => t[2] < width * height * 3
          /\ t[1] = "grayscale" => t[2] < width * height

\* C3 happens: the step on the last pixel of a widest, tallest image touched
\* the last cell of the scratch array and the last colour byte of the buffer.
Wit_C3_InBounds ==
    /\ effect = "DITHER_PALETTE"
    /\ width = MaxW
    /\ height = MaxH
    /\ pos = width * height
    /\ <<"pixelData", width * height * 3 - 1>> \in touched
    /\ <<"data", width * height * 4 - 2>> \in touched
    /\ Len(data) = width * height * 4

\* Squared distance, times 4, between a colour given in halves and a palette
\* entry.
SquaredDistance4(c, p) ==
    (c[1] - 2 * p[1]) * (c[1] - 2 * p[1]) + (c[2] - 2 * p[2]) * (c[2] - 2 * p[2])
        + (c[3] - 2 * p[3]) * (c[3] - 2 * p[3])

\* C4: findClosestColor returns the palette entry at the smallest squared
\* distance from the colour, the first such entry in palette order; when the
\* colour itself is in the palette the result has the colour's channel values.
Thm_C4_ClosestFirst ==
    (effect = "findClosestColor" /\ pc = "done") =>
        LET P == call.palette
            c == call.color
            first == CHOOSE k \in 1..Len(P) :
                        /\ \A j \in 1..Len(P) : SquaredDistance4(c, P[k]) <= SquaredDistance4(c, P[j])
                        /\ \A j \in 1..(k - 1) : SquaredDistance4(c, P[j]) > SquaredDistance4(c, P[k])
        IN  /\ result = P[first]
            /\ \A j \in 1..Len(P) : SquaredDistance4(c, result) <= SquaredDistance4(c, P[j])
            /\ \A j \in 1..Len(P) :
                  <<2 * P[j][1], 2 * P[j][2], 2 * P[j][3]>> = c => result = P[j]

\* C4 happens: the colour (0.5, 0, 0) lies at the same distance from the first
\* two entries (1, 0, 0) and (0, 0, 0) of a three-entry palette, and the call
\* returned the first of them.
Wit_C4_ClosestFirst ==
    /\ effect = "findClosestColor"
    /\ pc = "done"
    /\ call.color = <<1, 0, 0>>
    /\ Len(call.palette) = 3
    /\ call.palette[1] = <<1, 0, 0>>
    /\ call.palette[2] = <<0, 0, 0>>
    /\ result = <<1, 0, 0>>

\* C5: palette dithering of a buffer that is uniformly one palette colour:
\* every pixel keeps exactly that colour and no scratch cell ever moves from
\* its initial value (the error is zero, nothing is diffused).
Thm_C5_UniformPalette ==
    effect = "DITHER_PALETTE" =>
        \A n \in 1..Len(JUSTICE_PALETTE) :
            UniformSource(JUSTICE_PALETTE[n]) =>
                /\ \A p \in Pixels : Rgb(data, p) = JUSTICE_PALETTE[n]
                /\ pc # "start" =>
                      \A p \in Pixels, c \in 1..3 :
                          scratch[3 * p + c] = <<JUSTICE_PALETTE[n][c]>> \o ZeroFraction

\* C5 happens: a widest, tallest buffer of the palette's first colour was
\* dithered with full diffusion and came out unchanged.
Wit_C5_UniformPalette ==
    /\ effect = "DITHER_PALETTE"
    /\ pc = "done"
    /\ params.factor = 2
    /\ width = MaxW
    /\ height = MaxH
    /\ UniformSource(JUSTICE_PALETTE[1])
    /\ \A p \in Pixels : Rgb(data, p) = JUSTICE_PALETTE[1]

\* C6: every byte of the buffer lies in 0..255; every pixel the palette
\* routine has quantized holds a palette entry, and every pixel the two-colour
\* routine has quantized holds the dark or the light colour.
Thm_C6_OutputQuantized ==
    /\ \A k \in 1..Len(data) : data[k] \in 0..255
    /\ effect = "DITHER_PALETTE" =>
          \A p \in Pixels :
              p < pos => \E n \in 1..Len(JUSTICE_PALETTE) : Rgb(data, p) = JUSTICE_PALETTE[n]
    /\ effect = "DITHER_BW" =>
          \A p \in Pixels :
              p < pos => Rgb(data, p) \in {DarkColor(params), LightColor(params)}

\* C6 happens: a palette run is done although accumulated error had pushed a
\* scratch cell above 255 and another below 0.
Wit_C6_OutputQuantized ==
    /\ effect = "DITHER_PALETTE"
    /\ pc = "done"
    /\ \E k \in 1..Len(scratch) : scratch[k][1] > 255
    /\ \E k \in 1..Len(scratch) : scratch[k][1] < 0

\* The weight out of 16 with which pixel q receives error from pixel p of a
\* width w image: 7 right, 3 below-left, 5 below, 1 below-right, else nothing.
ClassicWeight(p, q, w) ==
    LET dx == (q % w) - (p % w)
        dy == (q \div w) - (p \div w)
    IN  IF dx = 1 /\ dy = 0 THEN 7
        ELSE IF dx = -1 /\ dy = 1 THEN 3
        ELSE IF dx = 0 /\ dy = 1 THEN 5
        ELSE IF dx = 1 /\ dy = 1 THEN 1
        ELSE 0
\* v + e * factor * weight / 16, the factor given in halves.
PlusShare(v, e, weight, factor) == FixAdd(v, FixDiv32(FixMulSmall(e, weight * factor)))

\* A step of a dithering scan quantizes pixel pos.
DitherPixelStep ==
    /\ effect \in {"DITHER_BW", "DITHER_PALETTE"}
    /\ pc = "loop"
    /\ pos' = pos + 1

\* C7: when a dithering step quantizes pixel (x, y) with error e, the scratch
\* cells of the existing pixels (x+1, y), (x-1, y+1), (x, y+1), (x+1, y+1) grow
\* by e*f*7/16, e*f*3/16, e*f*5/16, e*f*1/16 and every other cell keeps its
\* value (in particular nothing wraps around a row end).
Thm_C7_Diffusion ==
    [][DitherPixelStep =>
          /\ Len(scratch') = Len(scratch)
          /\ effect = "DITHER_PALETTE" =>
                \A q \in Pixels, c \in 1..3 :
                    LET e == FixSub(scratch[3 * pos + c], <<data'[4 * pos + c]>> \o ZeroFraction)
                    IN  scratch'[3 * q + c] =
                            PlusShare(scratch[3 * q + c], e, ClassicWeight(pos, q, width),
                                      params.factor)
          /\ effect = "DITHER_BW" =>
                \A q \in Pixels :
                    LET old == scratch[pos + 1]
                        quantized == IF old[1] > 1275000
                                        \/ (old[1] = 1275000 /\ \E k \in 2..Len(old) : old[k] > 0)
                                     THEN 2550000 ELSE 0
                        e == FixSub(old, <<quantized>> \o ZeroFraction)
                    IN  scratch'[q + 1] =
                            PlusShare(scratch[q + 1], e, ClassicWeight(pos, q, width),
                                      params.factor)
    ]_vars

\* C7 happens: in a 3 x 2 two-colour run with factor 0.5 the pixels (0, 0) and
\* (1, 0) have been quantized, and the right, below-left, below and
\* below-right neighbours of (1, 0) all hold a value other than their source
\* brightness.
Wit_C7_Diffusion ==
    /\ effect = "DITHER_BW"
    /\ pc = "loop"
    /\ width = 3
    /\ height = 2
    /\ pos = 2
    /\ params.factor = 1
    /\ \A q \in {2, 3, 4, 5} :
          scratch[q + 1] # <<Brightness(src[4 * q + 1], src[4 * q + 2], src[4 * q + 3])>>
                           \o ZeroFraction

\* The pixels of the block with origin (bx, by) that lie inside the image.
Clipped(bx, by, size) ==
    {<<x, y>> \in (0..(width - 1)) \X (0..(height - 1)) :
        /\ bx <= x /\ x < bx + size
        /\ by <= y /\ y < by + size}

RECURSIVE SumChannel(_, _)
\* The sum of channel c of the source over a set of pixels.
SumChannel(region, c) ==
    IF region = {} THEN 0
    ELSE LET q == CHOOSE q \in region : TRUE
         IN  src[4 * (q[2] * width + q[1]) + c] + SumChannel(region \ {q}, c)

\* C8: every block a block effect has accumulated read exactly the pixels of
\* its clipped region, its divisor is the number of those pixels and its total
\* their sum (so total / count is their mean, of which Pixelate draws the
\* integer part per channel and Duotone the side of the threshold); when the
\* processor is done every pixel of the image has been read by exactly one
\* block.
Thm_C8_BlockMeans ==
    effect \in BlockEffects /\ pc \in {"blocks", "done"} =>
        LET size == BlockSize(effect, params)
        IN  /\ \A k \in 1..Len(scratch) :
                  LET block == scratch[k]
                      region == Clipped(block.x, block.y, size)
                      sums == <<SumChannel(region, 1), SumChannel(region, 2),
                                SumChannel(region, 3)>>
                  IN  /\ block.cells = {4 * (q[2] * width + q[1]) : q \in region}
                      /\ block.count = Cardinality(region)
                      /\ block.count >= 1
                      /\ block.count = size * size
                            <=> (block.x + size <= width /\ block.y + size <= height)
                      /\ effect \in {"PIXELATE", "HALFTONE_COLOR"} => block.total = sums
                      /\ effect \notin {"PIXELATE", "HALFTONE_COLOR"} =>
                            block.total = 2126 * sums[1] + 7152 * sums[2] + 722 * sums[3]
                      /\ effect = "PIXELATE" =>
                            /\ drawn[2 * k] = <<"fillStyle",
                                                <<"rgb", sums[1] \div Cardinality(region),
                                                  sums[2] \div Cardinality(region),
                                                  sums[3] \div Cardinality(region)>> >>
                            /\ drawn[2 * k + 1] = <<"fillRect", block.x, block.y, size, size>>
                      /\ effect = "DUOTONE_PIXELATE" =>
                            drawn[2 * k][2] =
                                IF 2126 * sums[1] + 7152 * sums[2] + 722 * sums[3]
                                       < params.threshold * 10000 * Cardinality(region)
                                THEN params.darkColor ELSE params.lightColor
            /\ pc = "done" =>
                  \A p \in Pixels :
                      Cardinality({k \in 1..Len(scratch) : 4 * p \in scratch[k].cells}) = 1

\* C8 happens: Pixelate with block size 2 is done on a 3 x 3 image whose four
\* blocks hold 4, 2, 2 and 1 pixels, and the mean of the top right block is
\* not a whole number.
Wit_C8_BlockMeans ==
    /\ effect = "PIXELATE"
    /\ pc = "done"
    /\ width = 3
    /\ height = 3
    /\ params.pixelSize = 2
    /\ Len(scratch) = 4
    /\ <<scratch[1].count, scratch[2].count, scratch[3].count, scratch[4].count>> = <<4, 2, 2, 1>>
    /\ scratch[2].total[1] % 2 = 1

\* C9: the symbol index of a block of average brightness b, with N steps and
\* Len symbols (1 when the symbol string is empty, which is replaced by a
\* single space), is min(floor(b N / 256), Len - 1); it lies in 0..Len - 1, is
\* at most N - 1, is 0 for brightness 0, and the symbol drawn is the symbol at
\* that index.
Thm_C9_AsciiIndex ==
    (effect = "ASCII_ART" /\ pc = "returned") =>
        LET b == call.avgBrightness
            N == call.brightnessSteps
            L == IF Len(call.symbols) = 0 THEN 1 ELSE Len(call.symbols)
            q == (b[1] * N) \div (b[2] * 256)
            index == result.charIndex
        IN  /\ index = IF q < L - 1 THEN q ELSE L - 1
            /\ index \in 0..(L - 1)
            /\ index <= N - 1
            /\ b[1] = 0 => index = 0
            /\ result.char # "undefined"
            /\ Len(call.symbols) = 0 => result.char = " "
            /\ Len(call.symbols) > 0 => result.char = call.symbols[index + 1]

\* C9 happens: brightness 255 with 15 steps and the ten default symbols falls
\* in step 14 and draws the last symbol, index 9.
Wit_C9_AsciiIndex ==
    /\ effect = "ASCII_ART"
    /\ pc = "returned"
    /\ call.avgBrightness = <<255, 1>>
    /\ call.brightnessSteps = 15
    /\ call.symbols = SymbolsDefault
    /\ result.step = 14
    /\ result.charIndex = 9
    /\ result.char = "@"

\* A CRT run with amplitude, aberration and scanline opacity all 0 is done.
CRTNeutralDone ==
    /\ effect = "CRT_MODULATION"
    /\ pc = "done"
    /\ params.amplitude = 0
    /\ params.aberration = 0
    /\ params.scanlineOpacity = 0

\* C10 as stated: with amplitude, aberration and scanline opacity 0 the
\* output buffer equals the source buffer in all four channels.
Cex_C10_CRTIdentity == CRTNeutralDone => data = src

\* C10, amended: with amplitude, aberration and scanline opacity 0 every output
\* pixel has the R, G and B of the source pixel at the same position, and
\* alpha 255.
Thm_C10_CRTIdentity ==
    CRTNeutralDone =>
        \A p \in Pixels : Rgb(data, p) = Rgb(src, p) /\ Alpha(data, p) = 255

\* C10 happens: such a run on a 4 x 4 image with a pixel that is not opaque.
Wit_C10_CRTIdentity ==
    /\ CRTNeutralDone
    /\ width = 4
    /\ height = 4
    /\ \E p \in Pixels : Alpha(src, p) # 255
    /\ \A p \in Pixels : Rgb(data, p) = Rgb(src, p)

\* C11: rgbToCmyk of channels in 0..255 never divides by zero (every
\* component returned is a finite number); it returns (0, 0, 0, 1) exactly
\* when r = g = b = 0, and otherwise k = 1 - max(r, g, b) / 255 < 1 with
\* c = (max - r) / max, m and y alike: each in [0, 1], at least one of them 0.
Thm_C11_Cmyk ==
    (effect = "rgbToCmyk" /\ pc = "returned") =>
        LET max == IF call.r >= call.g /\ call.r >= call.b THEN call.r
                   ELSE IF call.g >= call.b THEN call.g ELSE call.b
            k == result[4]
        IN  /\ \A n \in 1..4 : result[n][2] > 0
            /\ (result = << <<0, 1>>, <<0, 1>>, <<0, 1>>, <<1, 1>> >>) <=> max = 0
            /\ max > 0 =>
                  /\ k[1] * 510 = (510 - max) * k[2]
                  /\ k[1] < k[2]
                  /\ result[1][1] * max = (max - call.r) * result[1][2]
                  /\ result[2][1] * max = (max - call.g) * result[2][2]
                  /\ result[3][1] * max = (max - call.b) * result[3][2]
                  /\ \A n \in 1..3 : result[n][1] >= 0 /\ result[n][1] <= result[n][2]
                  /\ \E n \in 1..3 : result[n][1] = 0

\* C11 happens: the call on r = g = b = 0 has returned (0, 0, 0, 1).
Wit_C11_Cmyk ==
    /\ effect = "rgbToCmyk"
    /\ pc = "returned"
    /\ call.r = 0
    /\ call.g = 0
    /\ call.b = 0
    /\ result = << <<0, 1>>, <<0, 1>>, <<0, 1>>, <<1, 1>> >>

\* The value of a hex digit, and -1 for every other character.
HexDigitValue(ch) ==
    CASE ch = "0" -> 0 [] ch = "1" -> 1 [] ch = "2" -> 2 [] ch = "3" -> 3
      [] ch = "4" -> 4 [] ch = "5" -> 5 [] ch = "6" -> 6 [] ch = "7" -> 7
      [] ch = "8" -> 8 [] ch = "9" -> 9
      [] ch \in {"a", "A"} -> 10 [] ch \in {"b", "B"} -> 11 [] ch \in {"c", "C"} -> 12
      [] ch \in {"d", "D"} -> 13 [] ch \in {"e", "E"} -> 14 [] ch \in {"f", "F"} -> 15
      [] OTHER -> -1
\* The six digits of a colour string, or <<>> when it is not six hex digits
\* with an optional leading '#'.
SixDigits(hex) ==
    LET offset == IF Len(hex) = 7 /\ hex[1] = "#" THEN 1 ELSE 0
    IN  IF Len(hex) = 6 + offset /\ \A k \in 1..6 : HexDigitValue(hex[k + offset]) >= 0
        THEN [k \in 1..6 |-> HexDigitValue(hex[k + offset])]
        ELSE <<>>
\* The colour a well-formed string denotes, and the fallback otherwise.
ColorOr(hex, fallback) ==
    LET d == SixDigits(hex)
    IN  IF d = <<>> THEN fallback
        ELSE <<16 * d[1] + d[2], 16 * d[3] + d[4], 16 * d[5] + d[6]>>

\* C12: hexToRgb returns null for every string that is not six hex digits with
\* an optional leading '#', and the three bytes otherwise; two-colour dithering
\* uses (0, 0, 0) for a malformed darkColor and (255, 255, 255) for a malformed
\* lightColor, writes nothing else, and ends with every pixel passed and the
\* image put on the canvas.
Thm_C12_HexFallback ==
    /\ (effect = "hexToRgb" /\ pc = "returned") =>
          IF SixDigits(call.hex) = <<>> THEN result = Null
          ELSE result = ColorOr(call.hex, <<>>)
    /\ effect = "DITHER_BW" =>
          /\ \A p \in Pixels :
                p < pos => Rgb(data, p) \in {ColorOr(params.darkColor, <<0, 0, 0>>),
                                            ColorOr(params.lightColor, <<255, 255, 255>>)}
          /\ pc \in {"start", "loop", "done"}
          /\ pos <= width * height
          /\ pc = "done" => pos = width * height /\ drawn = <<<<"putImageData", 0, 0>>>>

\* C12 happens: two-colour dithering is done with a darkColor holding a
\* non-hex character and a lightColor that is too short, and the image holds
\* both fallback colours.
Wit_C12_HexFallback ==
    /\ effect = "DITHER_BW"
    /\ pc = "done"
    /\ params.darkColor = HexBadDigit
    /\ params.lightColor = HexShort
    /\ \E p \in Pixels : Rgb(data, p) = <<0, 0, 0>>
    /\ \E p \in Pixels : Rgb(data, p) = <<255, 255, 255>>

\* The ids of the catalog the mounted component imports.
CatalogIds == {Catalog[i].id : i \in 1..Len(Catalog)}
\* The definition of the catalog with the given id.
DefinitionOf(id) == CHOOSE d \in {Catalog[i] : i \in 1..Len(Catalog)} : d.id = id
\* The parameter ids a definition declares.
DeclaredIds(definition) == {definition.params[i].id : i \in 1..Len(definition.params)}

\* C13 as stated: resolving an effect id that is not in the catalog never
\* yields the definition of a catalog effect, and no routine is run for it.
Cex_C13_NotFound ==
    effect \in Components =>
        /\ activeEffect \notin CatalogIds =>
              selectedEffect(activeEffect).id \notin CatalogIds
        /\ pc = "invoked" => call.activeEffect \in CatalogIds

\* C13, amended: an effect id that is not in the catalog resolves to the first
\* definition of the catalog, and the routine run for it is the first
\* effect's; an id of the catalog resolves to its own definition and routine.
Thm_C13_NotFound ==
    effect \in Components =>
        /\ selectedEffect(activeEffect) =
              IF activeEffect \in CatalogIds THEN DefinitionOf(activeEffect) ELSE Catalog[1]
        /\ pc = "invoked" =>
              call.selectedEffect =
                 IF call.activeEffect \in CatalogIds THEN call.activeEffect ELSE Catalog[1].id

\* C13 happens: a routine has been run for an id the catalog does not list.
Wit_C13_NotFound ==
    /\ effect = "part_004"
    /\ pc = "invoked"
    /\ call.activeEffect = "THRESHOLD"
    /\ call.activeEffect \notin CatalogIds
    /\ call.selectedEffect = "DUOTONE_PIXELATE"

\* C14 as stated: whenever a processing routine is invoked, the parameter set
\* it receives holds a value for every parameter id of that effect's list.
Cex_C14_ParamsComplete ==
    (effect \in Components /\ pc = "invoked") =>
        DeclaredIds(DefinitionOf(call.selectedEffect)) \subseteq DOMAIN call.effectParams

\* C15: in both catalogs every slider has min <= defaultValue <= max and every
\* select's defaultValue is the value of one of its options; so is what the
\* mounted component's default-params effect hands out.
Thm_C15_DefaultsInRange ==
    /\ \A catalog \in {EFFECTS, EFFECTS_part_001} :
          \A e \in 1..Len(catalog) : \A i \in 1..Len(catalog[e].params) :
             LET param == catalog[e].params[i]
             IN  /\ param.type = "slider" =>
                       param.min <= param.defaultValue /\ param.defaultValue <= param.max
                 /\ param.type = "select" =>
                       \E o \in 1..Len(param.options) : param.options[o] = param.defaultValue
    /\ effect \in Components =>
          LET definition == selectedEffect(activeEffect)
          IN  \A i \in 1..Len(definition.params) :
                 LET param == definition.params[i]
                     value == InitialParams(definition)[param.id]
                 IN  /\ param.type = "slider" => param.min <= value /\ value <= param.max
                     /\ param.type = "select" =>
                           \E o \in 1..Len(param.options) : param.options[o] = value

\* C15 happens: the component shows an effect with a slider and a select, both
\* at their defaults.
Wit_C15_DefaultsInRange ==
    /\ effect = "part_004"
    /\ activeEffect = "HALFTONE_LINES"
    /\ effectParams = InitialParams(selectedEffect(activeEffect))
    /\ effectParams.gridSize = 800
    /\ effectParams.orientation = "vertical"

\* C16: in both catalogs every key a processor reads from its parameter set is
\* the id of a parameter of that effect's own list; a routine run with the
\* defaults of its effect finds every key it reads.
Thm_C16_ReadsDeclared ==
    /\ \A catalog \in {EFFECTS, EFFECTS_part_001} :
          \A e \in 1..Len(catalog) : catalog[e].reads \subseteq DeclaredIds(catalog[e])
    /\ (effect \in Components /\ pc = "invoked") =>
          LET definition == DefinitionOf(call.selectedEffect)
          IN  call.effectParams = InitialParams(definition) =>
                 definition.reads \subseteq DOMAIN call.effectParams

\* C16 happens: the CRT routine has run with its defaults, which hold every
\* key it reads.
Wit_C16_ReadsDeclared ==
    /\ effect = "part_004"
    /\ pc = "invoked"
    /\ call.selectedEffect = "CRT_MODULATION"
    /\ call.effectParams = InitialParams(DefinitionOf("CRT_MODULATION"))
    /\ CRTReads \subseteq DOMAIN call.effectParams

\* A step of the two-colour scan quantizes pixel pos.
DitherBWPixelStep ==
    /\ effect = "DITHER_BW"
    /\ pc = "loop"
    /\ pos' = pos + 1

\* C17: a step of two-colour dithering writes the light colour exactly when
\* the pixel's scratch brightness is above 127.5 and the dark colour
\* otherwise, and the error it spreads is that brightness minus 255 in the
\* first case and minus 0 in the second, whatever the two colours are.
Thm_C17_BWQuantize ==
    [][DitherBWPixelStep =>
          LET old == scratch[pos + 1]
              light == \/ old[1] > 1275000
                       \/ old[1] = 1275000 /\ \E k \in 2..Len(old) : old[k] > 0
              e == FixSub(old, <<IF light THEN 255 * BrightnessScale ELSE 0>> \o ZeroFraction)
          IN  /\ Rgb(data', pos) =
                    IF light THEN ColorOr(params.lightColor, <<255, 255, 255>>)
                    ELSE ColorOr(params.darkColor, <<0, 0, 0>>)
              /\ \A q \in Pixels :
                    ClassicWeight(pos, q, width) # 0 =>
                       FixSub(scratch'[q + 1], scratch[q + 1]) =
                          FixDiv32(FixMulSmall(e, ClassicWeight(pos, q, width) * params.factor))
    ]_vars

\* C17 happens: a two-colour run with navy and lime has written both colours,
\* and the scan has not reached the end.
Wit_C17_BWQuantize ==
    /\ effect = "DITHER_BW"
    /\ pc = "loop"
    /\ params.darkColor = HexNavy
    /\ params.lightColor = HexLime
    /\ pos < width * height
    /\ \E p \in Pixels : p < pos /\ Rgb(data, p) = ColorOr(HexNavy, <<>>)
    /\ \E p \in Pixels : p < pos /\ Rgb(data, p) = ColorOr(HexLime, <<>>)

\* The integer nearest to v / BrightnessScale, the upper one of two equally near.
Nearest(v) ==
    (v \div BrightnessScale) + (IF 2 * (v % BrightnessScale) >= BrightnessScale THEN 1 ELSE 0)
\* The column of row y the displacement reads for output column x, shifted by
\* the row's offset plus shift (all in units of 1/BrightnessScale).
SourceColumn(x, y, shift) ==
    LET o == SinE4(y * params.frequency) * params.amplitude
        n == Nearest(x * BrightnessScale - (o + shift))
    IN  IF n < 0 THEN 0 ELSE IF n > width - 1 THEN width - 1 ELSE n

\* C18: before the scanlines, every pixel (x, y) the displacement loop has
\* written has its R from column clamp(round(x - (o + aberration)), 0, W - 1)
\* of row y of the source, its G from clamp(round(x - o)), its B from
\* clamp(round(x - (o - aberration))), o = amplitude * sin(y * frequency), and
\* alpha 255: every read is in the same row.
Thm_C18_CRTDisplace ==
    (effect = "CRT_MODULATION" /\ pc = "loop") =>
        \A p \in Pixels :
            p < pos =>
               LET x == p % width
                   y == p \div width
                   ab == params.aberration * BrightnessScale
                   at(shift) == 4 * (y * width + SourceColumn(x, y, shift))
               IN  /\ data[4 * p + 1] = src[at(ab) + 1]
                   /\ data[4 * p + 2] = src[at(0) + 2]
                   /\ data[4 * p + 3] = src[at(-ab) + 3]
                   /\ data[4 * p + 4] = 255

\* C18 happens: the displacement loop has passed every pixel of an image of
\* two rows whose second row is displaced, one read having been held at the
\* left edge and one at the right edge, and a pixel has changed.
Wit_C18_CRTDisplace ==
    /\ effect = "CRT_MODULATION"
    /\ pc = "loop"
    /\ pos = width * height
    /\ height = 2
    /\ params.aberration = 1
    /\ SinE4(params.frequency) * params.amplitude # 0
    /\ \E p \in Pixels :
          Nearest((p % width) * BrightnessScale
                  - (SinE4((p \div width) * params.frequency) * params.amplitude
                     + params.aberration * BrightnessScale)) < 0
    /\ \E p \in Pixels :
          Nearest((p % width) * BrightnessScale
                  - (SinE4((p \div width) * params.frequency) * params.amplitude
                     - params.aberration * BrightnessScale)) > width - 1
    /\ \E p \in Pixels : Rgb(data, p) # Rgb(src, p)

\* What the displacement loop leaves in channel c (1..4) of pixel p.
Displaced(p, c) ==
    LET x == p % width
        y == p \div width
        ab == params.aberration * BrightnessScale
        shift == IF c = 1 THEN ab ELSE IF c = 2 THEN 0 ELSE -ab
    IN  IF c = 4 THEN 255 ELSE src[4 * (y * width + SourceColumn(x, y, shift)) + c]
\* v * (1 - opacity/100) as a byte holds it: the nearest integer, the even one
\* of two equally near.
Darkened(v, opacity) ==
    LET num == v * (100 - opacity)
        lo == num \div 100
        twice == 2 * num - (2 * lo + 1) * 100
    IN  IF twice < 0 THEN lo
        ELSE IF twice > 0 THEN lo + 1
        ELSE IF lo % 2 = 0 THEN lo ELSE lo + 1

\* C19: in the scanline step with scanlineOpacity > 0, R, G and B of the rows
\* with even y the step has passed are the displaced values multiplied by
\* (1 - scanlineOpacity), as the byte buffer holds the product; the rows with
\* odd y, the rows not yet passed and every alpha hold the displaced values.
\* When the processor is done every even row has been passed, and with
\* scanlineOpacity = 0 no pixel differs from the displaced image.
Thm_C19_Scanlines ==
    (effect = "CRT_MODULATION" /\ pc \in {"scan", "done"}) =>
        /\ pc = "scan" => params.scanlineOpacity > 0 /\ pos % 2 = 0
        /\ \A p \in Pixels : \A c \in 1..4 :
              LET y == p \div width
                  passed == pc = "done" \/ y < pos
              IN  data[4 * p + c] =
                     IF params.scanlineOpacity > 0 /\ y % 2 = 0 /\ passed /\ c # 4
                     THEN Darkened(Displaced(p, c), params.scanlineOpacity)
                     ELSE Displaced(p, c)

\* C19 happens: the processor is done with scanlineOpacity 0.15 on an image of
\* two rows; a pixel of row 0 is darker than its displaced value and a pixel
\* of row 1 is bright and holds its displaced value.
Wit_C19_Scanlines ==
    /\ effect = "CRT_MODULATION"
    /\ pc = "done"
    /\ params.scanlineOpacity = 15
    /\ height = 2
    /\ \E p \in Pixels : p \div width = 0 /\ data[4 * p + 1] < Displaced(p, 1)
    /\ \E p \in Pixels : p \div width = 1 /\ data[4 * p + 1] = Displaced(p, 1)
                         /\ data[4 * p + 1] > 0

\* The brightness of source pixel p, in units of 1/BrightnessScale.
SourceBrightness(p) ==
    2126 * src[4 * p + 1] + 7152 * src[4 * p + 2] + 722 * src[4 * p + 3]
\* b / BrightnessScale as a byte holds it: the nearest integer, the even one of
\* two equally near, at most 255.
BrightnessByte(b) ==
    LET lo == b \div BrightnessScale
        twice == 2 * b - (2 * lo + 1) * BrightnessScale
        n == IF twice < 0 THEN lo
             ELSE IF twice > 0 THEN lo + 1
             ELSE IF lo % 2 = 0 THEN lo ELSE lo + 1
    IN  IF n > 255 THEN 255 ELSE n

\* C20: Grayscale: every pixel the loop has passed has R = G = B; they are the
\* brightness b = 0.2126 R + 0.7152 G + 0.0722 B of its source pixel, as a byte
\* holds it, when b is strictly above the level, and 0 when b <= level; alpha
\* and the pixels not yet passed are as in the source.
Thm_C20_Grayscale ==
    effect = "GRAYSCALE" =>
        \A p \in Pixels :
            IF 4 * p < pos
            THEN LET b == SourceBrightness(p)
                     v == IF b > params.level * BrightnessScale THEN BrightnessByte(b) ELSE 0
                 IN  /\ Rgb(data, p) = <<v, v, v>>
                     /\ Alpha(data, p) = Alpha(src, p)
            ELSE Rgb(data, p) = Rgb(src, p) /\ Alpha(data, p) = Alpha(src, p)

\* C20 happens: a Grayscale run at level 128 is done; a pixel whose brightness
\* is exactly 128 is black, a coloured pixel above the level holds its
\* brightness in all three channels, and that brightness is no whole number.
Wit_C20_Grayscale ==
    /\ effect = "GRAYSCALE"
    /\ pc = "done"
    /\ params.level = 128
    /\ \E p \in Pixels : SourceBrightness(p) = 128 * BrightnessScale /\ Rgb(data, p) = <<0, 0, 0>>
    /\ \E p \in Pixels :
          /\ SourceBrightness(p) > 128 * BrightnessScale
          /\ SourceBrightness(p) % BrightnessScale # 0
          /\ Rgb(data, p) = <<BrightnessByte(SourceBrightness(p)),
                              BrightnessByte(SourceBrightness(p)),
                              BrightnessByte(SourceBrightness(p))>>
          /\ Rgb(src, p)[1] # Rgb(src, p)[2]

\* The positions the neon effect samples with a dot size of at least 1: the
\* pixels whose column and row are multiples of the dot size.
SamplePositions(S) ==
    {q \in (0..(width - 1)) \X (0..(height - 1)) : q[1] % S = 0 /\ q[2] % S = 0}

\* The brightness of source pixel q, in units of 1/10000.
BrightnessAt(q) ==
    LET p == q[2] * width + q[1]
    IN  2126 * src[4 * p + 1] + 7152 * src[4 * p + 2] + 722 * src[4 * p + 3]

\* The centres of the arcs drawn so far.
ArcCentres == {<<drawn[k][2], drawn[k][3]>> : k \in {j \in 1..Len(drawn) : drawn[j][1] = "arc"}}

\* C21: the neon effect with dot size S >= 1 draws, when it is done, one dot
\* at each sample position (column and row multiples of S, inside the image)
\* whose source brightness is above the threshold, or below it when invert is
\* on, and no other dot; a sample whose brightness equals the threshold gets no
\* dot in either mode; every dot has radius S / 2; and the only pixels read
\* are the sample positions.
Thm_C21_NeonDots ==
    (effect = "NEON_SILHOUETTE" /\ params.dotSize >= 1 /\ pc \in {"samples", "done"}) =>
        LET S == params.dotSize
            t == params.threshold * 10000
            passing == {q \in SamplePositions(S) :
                            IF params.invert THEN BrightnessAt(q) < t ELSE BrightnessAt(q) > t}
            arcs == {k \in 1..Len(drawn) : drawn[k][1] = "arc"}
        IN  /\ ArcCentres \subseteq {<<<<q[1], 1>>, <<q[2], 1>>>> : q \in passing}
            /\ \A k \in arcs : drawn[k][4] = Rat(S, 2)
            /\ \A q \in SamplePositions(S) :
                  BrightnessAt(q) = t => <<<<q[1], 1>>, <<q[2], 1>>>> \notin ArcCentres
            /\ \A k \in 1..Len(scratch) :
                  scratch[k].cells \subseteq
                      {4 * (q[2] * width + q[1]) : q \in SamplePositions(S)}
            /\ data = src
            /\ pc = "done" =>
                  /\ ArcCentres = {<<<<q[1], 1>>, <<q[2], 1>>>> : q \in passing}
                  /\ Cardinality(arcs) = Cardinality(passing)
                  /\ {<<scratch[k].x, scratch[k].y>> : k \in 1..Len(scratch)}
                        = SamplePositions(S)

\* C21 happens: a run with dot size 2, threshold 128 and invert off on an
\* image at least 4 wide is done; the sample at (0, 0) has brightness exactly
\* 128 and no dot, the sample at (2, 0) has a dot, and the pixel at (3, 0),
\* which is brighter than the threshold but not a sample position, has none.
Wit_C21_NeonDots ==
    /\ effect = "NEON_SILHOUETTE"
    /\ pc = "done"
    /\ params.dotSize = 2
    /\ ~params.invert
    /\ width >= 4
    /\ BrightnessAt(<<0, 0>>) = 1280000
    /\ <<<<0, 1>>, <<0, 1>>>> \notin ArcCentres
    /\ <<<<2, 1>>, <<0, 1>>>> \in ArcCentres
    /\ BrightnessAt(<<3, 0>>) > 1280000
    /\ <<<<3, 1>>, <<0, 1>>>> \notin ArcCentres

\* The origins of the blocks of side S that hold at least one pixel of the
\* image.
BlockOrigins(S) ==
    {q \in (0..(width - 1)) \X (0..(height - 1)) : q[1] % S = 0 /\ q[2] % S = 0}

\* C22: Duotone fills every block with one of the two colours handed in: the
\* dark colour when the block's average brightness (the brightness total of
\* its pixels inside the image over their number) is below the threshold, the
\* light colour when it is above or equal to it; each fill covers the block's
\* cell, and when the processor is done every block holding a pixel of the
\* image has been filled once, in scan order.
Thm_C22_Duotone ==
    (effect = "DUOTONE_PIXELATE" /\ pc \in {"blocks", "done"}) =>
        LET S == IF params.pixelSize < 1 THEN 1 ELSE params.pixelSize
            t == params.threshold * 10000
            fills == {k \in 1..Len(drawn) : drawn[k][1] = "fillRect"}
        IN  /\ Len(drawn) = 1 + 2 * Len(scratch)
            /\ \A k \in 1..Len(scratch) :
                  LET region == Clipped(scratch[k].x, scratch[k].y, S)
                      n == Cardinality(region)
                      total == 2126 * SumChannel(region, 1) + 7152 * SumChannel(region, 2)
                                  + 722 * SumChannel(region, 3)
                      style == drawn[2 * k][2]
                  IN  /\ drawn[2 * k][1] = "fillStyle"
                      /\ style \in {params.darkColor, params.lightColor}
                      /\ total < t * n => style = params.darkColor
                      /\ total > t * n => style = params.lightColor
                      /\ total = t * n => style = params.lightColor
                      /\ drawn[2 * k + 1] = <<"fillRect", scratch[k].x, scratch[k].y, S, S>>
            /\ pc = "done" =>
                  /\ {<<drawn[k][2], drawn[k][3]>> : k \in fills} = BlockOrigins(S)
                  /\ Cardinality(fills) = Cardinality(BlockOrigins(S))

\* C22 happens: a Duotone run with block size 3 on a 5 x 1 image is done; the
\* first block holds three pixels (128, 127 and 129 grey) whose average
\* brightness is exactly the threshold and is filled with the light colour,
\* and the second, clipped to two pixels, is filled with the dark colour.
Wit_C22_Duotone ==
    /\ effect = "DUOTONE_PIXELATE"
    /\ pc = "done"
    /\ params.pixelSize = 3
    /\ width = 5
    /\ Len(scratch) = 2
    /\ scratch[1].count = 3
    /\ scratch[1].total = params.threshold * 10000 * 3
    /\ drawn[2] = <<"fillStyle", params.lightColor>>
    /\ scratch[2].count = 2
    /\ drawn[4] = <<"fillStyle", params.darkColor>>

\* The brightness total of the source over the clipped block at (bx, by), in
\* units of 1/10000.
BlockBrightness(bx, by, S) ==
    LET region == Clipped(bx, by, S)
    IN  2126 * SumChannel(region, 1) + 7152 * SumChannel(region, 2)
            + 722 * SumChannel(region, 3)

\* (a / 255) * (G / halves), or G / halves minus that when inverted, for the
\* block at (bx, by) of average brightness a, as a fraction in lowest terms.
ExpectedExtent(bx, by, G, halves, invert) ==
    LET total == BlockBrightness(bx, by, G)
        den == 2550000 * Cardinality(Clipped(bx, by, G)) * halves
    IN  IF invert THEN Rat(G * (den \div halves) - total * G, den) ELSE Rat(total * G, den)

\* start + extent / 2 = origin + G / 2: the extent is centred in the cell.
Centred(start, extent, origin, G) ==
    start = Rat((2 * origin + G) * extent[2] - extent[1], 2 * extent[2])

\* C23: for every block of the three monochrome halftones, with G the grid
\* size and a the block's average brightness, the side of the square or the
\* thickness of the bar drawn is (a / 255) G, or G minus that when invert is
\* on (so the two sizes of one block sum to G), and lies in [0, G]; the radius
\* of the disc is (a / 255)(G / 2), or G / 2 minus that, and lies in
\* [0, G / 2]; the square is centred in the block's G x G cell on both axes,
\* the bar across its thickness while spanning the cell along its length, and
\* the disc has the cell's centre.
Thm_C23_HalftoneSize ==
    (effect \in {"HALFTONE_SQUARES", "HALFTONE_CIRCLES", "HALFTONE_LINES"}
        /\ pc \in {"blocks", "done"}) =>
        LET G == IF params.gridSize < 1 THEN 1 ELSE params.gridSize
        IN  \A k \in 1..Len(scratch) :
              LET bx == scratch[k].x
                  by == scratch[k].y
                  size == ExpectedExtent(bx, by, G, 1, params.invert)
                  other == ExpectedExtent(bx, by, G, 1, ~params.invert)
                  radius == ExpectedExtent(bx, by, G, 2, params.invert)
              IN  /\ 0 <= size[1] /\ size[1] <= G * size[2]
                  /\ 0 <= radius[1] /\ 2 * radius[1] <= G * radius[2]
                  /\ size[2] = other[2] /\ size[1] + other[1] = G * size[2]
                  /\ effect = "HALFTONE_SQUARES" =>
                        LET rect == drawn[3 + k]
                        IN  /\ rect[1] = "fillRect"
                            /\ rect[4] = size /\ rect[5] = size
                            /\ Centred(rect[2], size, bx, G)
                            /\ Centred(rect[3], size, by, G)
                  /\ effect = "HALFTONE_LINES" =>
                        LET rect == drawn[3 + k]
                        IN  /\ rect[1] = "fillRect"
                            /\ params.orientation = "vertical" =>
                                  /\ rect[4] = size /\ rect[5] = RatInt(G)
                                  /\ Centred(rect[2], size, bx, G)
                                  /\ rect[3] = RatInt(by)
                            /\ params.orientation # "vertical" =>
                                  /\ rect[5] = size /\ rect[4] = RatInt(G)
                                  /\ Centred(rect[3], size, by, G)
                                  /\ rect[2] = RatInt(bx)
                  /\ effect = "HALFTONE_CIRCLES" =>
                        LET arc == drawn[3 * k + 2]
                        IN  /\ arc[1] = "arc"
                            /\ arc[4] = radius
                            /\ arc[2] = Rat(2 * bx + G, 2)
                            /\ arc[3] = Rat(2 * by + G, 2)

\* C23 happens: an inverted squares run with grid size 2 is done, and its
\* first block, four pixels of average brightness 127.75, got a square of
\* side 2 - 2 * 127.75 / 255 = 509 / 510, strictly inside its cell.
Wit_C23_HalftoneSize ==
    /\ effect = "HALFTONE_SQUARES"
    /\ pc = "done"
    /\ params.invert
    /\ params.gridSize = 2
    /\ scratch[1].count = 4
    /\ scratch[1].total = 5110000
    /\ drawn[4][4] = <<509, 510>>
    /\ drawn[4][2] = <<511, 1020>>

\* The four dots of the colour halftone in drawing order, with the signs of
\* their offsets from the block centre.
DotOrder == << <<"cyan", -1, -1>>, <<"magenta", 1, -1>>, <<"yellow", -1, 1>>, <<"black", 1, 1>> >>

\* The channel totals of the source over the clipped block at (bx, by).
BlockTotals(bx, by, G) ==
    LET region == Clipped(bx, by, G)
    IN  <<SumChannel(region, 1), SumChannel(region, 2), SumChannel(region, 3)>>

\* The largest of three numbers.
Max3(t) == IF t[1] >= t[2] /\ t[1] >= t[3] THEN t[1] ELSE IF t[2] >= t[3] THEN t[2] ELSE t[3]

\* The arc of dot j of the k-th block in the canvas trace of the colour
\* halftone, and the style set for it.
DotArc(k, j) == drawn[3 + 16 * (k - 1) + 4 * (j - 1) + 3]
DotStyle(k, j) == drawn[3 + 16 * (k - 1) + 4 * (j - 1) + 1]

\* Every dot of every block sits at its own quadrant centre, block centre
\* plus or minus G / 4 on each axis, in the order cyan, magenta, yellow, black.
DotsAtQuadrants(G) ==
    \A k \in 1..Len(scratch) : \A j \in 1..4 :
        /\ DotStyle(k, j) = <<"fillStyle", DotOrder[j][1]>>
        /\ DotArc(k, j)[1] = "arc"
        /\ DotArc(k, j)[2] = Rat(4 * scratch[k].x + 2 * G + DotOrder[j][2] * G, 4)
        /\ DotArc(k, j)[3] = Rat(4 * scratch[k].y + 2 * G + DotOrder[j][3] * G, 4)

\* Every radius lies in [0, G / 4].
RadiiInRange(G) ==
    \A k \in 1..Len(scratch) : \A j \in 1..4 :
        LET radius == DotArc(k, j)[4]
        IN  0 <= radius[1] /\ 4 * radius[1] <= G * radius[2]

\* The statement of C24 as it was made: the radius of each of the four dots,
\* black included, is its channel value times (1 - k) times G / 4.  With n
\* pixels in the block, channel totals T and M their largest, k is
\* (255 n - M) / (255 n), 1 - k is M / (255 n), and the c, m, y values times
\* (1 - k) are (M - T) / (255 n).
Cex_C24_ColorDots ==
    (effect = "HALFTONE_COLOR" /\ pc \in {"blocks", "done"}) =>
        LET G == IF params.gridSize < 2 THEN 2 ELSE params.gridSize
        IN  /\ DotsAtQuadrants(G)
            /\ RadiiInRange(G)
            /\ \A k \in 1..Len(scratch) :
                  LET T == BlockTotals(scratch[k].x, scratch[k].y, G)
                      n == Cardinality(Clipped(scratch[k].x, scratch[k].y, G))
                      M == Max3(T)
                  IN  /\ \A j \in 1..3 : DotArc(k, j)[4] = Rat((M - T[j]) * G, 1020 * n)
                      /\ DotArc(k, 4)[4] = Rat((255 * n - M) * M * G, 4 * (255 * n) * (255 * n))

\* C24, amended: for every block of the colour halftone, with (c, m, y, k) the
\* CMYK conversion of the block's average colour and G the grid size (at least
\* 2), the four dots are drawn in the order cyan, magenta, yellow, black, each
\* at its own quadrant centre (block centre plus or minus G / 4 on each axis);
\* the cyan, magenta and yellow radii are the channel value times (1 - k)
\* times G / 4, the black radius is k times G / 4, not scaled by (1 - k); every
\* radius lies in [0, G / 4].
Thm_C24_ColorDots ==
    (effect = "HALFTONE_COLOR" /\ pc \in {"blocks", "done"}) =>
        LET G == IF params.gridSize < 2 THEN 2 ELSE params.gridSize
        IN  /\ Len(drawn) = 3 + 16 * Len(scratch) + (IF pc = "done" THEN 1 ELSE 0)
            /\ DotsAtQuadrants(G)
            /\ RadiiInRange(G)
            /\ \A k \in 1..Len(scratch) :
                  LET T == BlockTotals(scratch[k].x, scratch[k].y, G)
                      n == Cardinality(Clipped(scratch[k].x, scratch[k].y, G))
                      M == Max3(T)
                  IN  /\ \A j \in 1..3 : DotArc(k, j)[4] = Rat((M - T[j]) * G, 1020 * n)
                      /\ DotArc(k, 4)[4] = Rat((255 * n - M) * G, 1020 * n)

\* C24 happens: a colour halftone run is done whose first block has k strictly
\* between 0 and 1, so that its black dot has a radius strictly between 0 and
\* G / 4, and a cyan dot of positive radius.
Wit_C24_ColorDots ==
    /\ effect = "HALFTONE_COLOR"
    /\ pc = "done"
    /\ params.gridSize = 3
    /\ scratch[1].count = 9
    /\ DotArc(1, 4)[4][1] > 0
    /\ 4 * DotArc(1, 4)[4][1] < 3 * DotArc(1, 4)[4][2]
    /\ DotArc(1, 1)[4][1] > 0

\* The scratch cells of pixel q: three per pixel in applyDitheringColor, one
\* in applyDitheringBW.
CellsOf(q) == IF effect = "DITHER_PALETTE" THEN {3 * q + c : c \in 1..3} ELSE {q + 1}

\* The pixel a scratch index (counted from 0) belongs to.
PixelOf(index) == IF effect = "DITHER_PALETTE" THEN index \div 3 ELSE index

\* C25: in both dithering routines the step that quantizes pixel pos leaves
\* the scratch cells of pos itself and of every pixel before it in raster
\* order as they were, leaves the output of every earlier pixel as it was, and
\* every scratch cell it touches besides its own belongs to a pixel strictly
\* later in raster order; so a pixel's scratch value is final from the moment
\* it is read.
Thm_C25_NoRewrite ==
    [][DitherPixelStep =>
          /\ \A q \in 0..pos : \A k \in CellsOf(q) : scratch'[k] = scratch[k]
          /\ \A q \in 0..(pos - 1) : Rgb(data', q) = Rgb(data, q)
          /\ \A t \in touched' :
                t[1] \in {"pixelData", "grayscale"} =>
                    /\ PixelOf(t[2]) >= pos
                    /\ PixelOf(t[2]) < width * height
          /\ \A q \in (pos + 1)..(width * height - 1) : Rgb(data', q) = Rgb(src, q)
    ]_vars

\* C25 happens: a palette dithering scan of a 2 x 2 image has quantized (0, 0)
\* and (1, 0); the cells of (0, 1), next to be read, hold the errors diffused
\* to them and no longer the source values, and the cells of the two
\* quantized pixels hold what they held when they were read.
Wit_C25_NoRewrite ==
    /\ effect = "DITHER_PALETTE"
    /\ pc = "loop"
    /\ width = 2
    /\ height = 2
    /\ pos = 2
    /\ \E c \in 1..3 : scratch[3 * pos + c] # FixFromInt(src[4 * pos + c])
    /\ \A c \in 1..3 : scratch[c] = FixFromInt(src[c])
    /\ \E c \in 1..3 : scratch[3 + c] # FixFromInt(src[4 + c])

\* An iteration of a scan loop: the processor stays in its scan and records
\* one more block or sample.
ScanIteration ==
    /\ effect \in ScanEffects
    /\ pc \in {"blocks", "samples"}
    /\ pc' = pc
    /\ Len(scratch') = Len(scratch) + 1

\* C26: every iteration of every effect's scan, for every size parameter
\* handed in (0 and negative values included), advances the loop variables by
\* a step of at least 1: either the column grows by at least 1 within the
\* row, or the scan moves to column 0 of a row at least 1 further down.  A
\* scan that always advances leaves the image after at most width * height
\* iterations, so the routine terminates.
Cex_C26_ScanAdvances ==
    [][ScanIteration =>
          \/ pos'[2] = pos[2] /\ pos'[1] >= pos[1] + 1
          \/ pos'[2] >= pos[2] + 1 /\ pos'[1] = 0
    ]_vars

\* C27 as stated: when handleApplyPreset(p) and the React effects it triggers
\* have run, activeEffect is p.effectId and effectParams is p.params, whether
\* or not p.effectId was the active effect.
Cex_C27_PresetApplied ==
    [][HandleApplyPreset =>
          \E i \in 1..Len(presets) :
             /\ activeEffect' = presets[i].effectId
             /\ effectParams' = presets[i].params
    ]_vars

\* C28 as stated: isLoading is true in every state in which a timeout set by
\* processImage has not yet run, also when several are pending at once; it is
\* false only when none is pending.
Cex_C28_LoadingWhilePending ==
    effect \in Components => (timers # <<>> => isLoading)

\* What the processed canvas holds: the result of the last invocation run.
ProcessedCanvas == call
\* C29: latest request wins.  Whenever no timeout of processImage is pending
\* and an image is loaded, the processed canvas holds the result of the
\* currently selected effect applied to the current image with the current
\* parameter set; and an invocation that runs was scheduled after the one
\* whose result it overwrites and before every one still pending.
Thm_C29_LatestWins ==
    [][/\ (effect' \in Components /\ timers' = <<>> /\ originalImage' # Null) =>
             /\ pc' = "invoked"
             /\ ProcessedCanvas'.selectedEffect = selectedEffect(activeEffect').id
             /\ ProcessedCanvas'.originalImage = originalImage'
             /\ ProcessedCanvas'.effectParams = effectParams'
       /\ TimeoutFires =>
             /\ pc = "invoked" => ProcessedCanvas.seq < ProcessedCanvas'.seq
             /\ \A k \in 1..Len(timers') : ProcessedCanvas'.seq < timers'[k].seq
    ]_vars

\* C29 happens: after a second image, an effect switch and a parameter change
\* made while earlier invocations were pending, every timeout has fired and
\* the canvas holds the result of the last one.
Wit_C29_LatestWins ==
    /\ effect = "part_004"
    /\ timers = <<>>
    /\ pc = "invoked"
    /\ originalImage = "next image"
    /\ activeEffect = "HALFTONE_LINES"
    /\ effectParams # InitialParams(selectedEffect(activeEffect))
    /\ ProcessedCanvas.effectParams = effectParams
    /\ ProcessedCanvas.seq = 2 * events - 1
    /\ events >= 4

\* The names of a preset list are pairwise distinct.
DistinctNames(list) ==
    \A i, j \in 1..Len(list) : list[i].name = list[j].name => i = j
\* A typed name holds white space only.
Blank(typed) == \A i \in 1..Len(typed) : typed[i] \in WhiteSpace
\* The part of a typed name from its first to its last character that is not
\* white space.
Stripped(typed) ==
    LET solid == {i \in 1..Len(typed) : typed[i] \notin WhiteSpace}
        first == CHOOSE i \in solid : \A j \in solid : i <= j
        last == CHOOSE i \in solid : \A j \in solid : j <= i
    IN  SubSeq(typed, first, last)
\* C30: a save or a delete turns a preset list with pairwise distinct names
\* into one with pairwise distinct names; saving under a blank or white-space
\* name leaves the list as it is and sets an error message; saving under the
\* trimmed name of an entry replaces that entry where it stands; saving under
\* a new name appends the preset at the end; deleting a name removes exactly
\* the entry of that name.
Thm_C30_PresetList ==
    [][/\ DistinctNames(presets) => DistinctNames(presets')
       /\ \A typed \in TypedNames :
             SavePreset(typed) =>
                IF Blank(typed)
                THEN presets' = presets /\ error' # Null
                ELSE LET saved == [name |-> Stripped(typed), effectId |-> activeEffect,
                                   params |-> effectParams]
                     IN  IF \E i \in 1..Len(presets) : presets[i].name = saved.name
                         THEN /\ Len(presets') = Len(presets)
                              /\ \A i \in 1..Len(presets) :
                                    presets'[i] = IF presets[i].name = saved.name
                                                  THEN saved ELSE presets[i]
                         ELSE presets' = Append(presets, saved)
       /\ \A i \in 1..Len(presets) :
             DeletePreset(presets[i].name) =>
                presets' = SubSeq(presets, 1, i - 1) \o SubSeq(presets, i + 1, Len(presets))
    ]_vars

\* C30 happens: a preset saved under the name s with the initial effect
\* stands first, a preset of another name has been appended after it, and
\* the last save was under a blank name.
Wit_C30_PresetList ==
    /\ effect = "part_004"
    /\ Len(presets) = 2
    /\ presets[1].name = <<"s">>
    /\ presets[1].effectId = "DUOTONE_PIXELATE"
    /\ presets[2].name = <<"o">>
    /\ error = BlankNameError

====
